---- MODULE Spec2Model ----
(***************************************************************************)
(* Relative map visualization (map-visualization.ts): the distance-list    *)
(* parser, the length normalizer toRel, the graph builder                  *)
(* buildMapDataFromEntries, the spring solver layoutNodesByDistances, the  *)
(* projector projectRelativePositions and the edge drawing of              *)
(* renderMapSVGFromEntries.                                                *)
(*                                                                         *)
(* Numbers.  A JavaScript number v is represented by the integer v*Scale   *)
(* (a grid of 1/Scale); products and quotients are rounded to the nearest  *)
(* grid point, symmetrically in the sign, as IEEE rounding is.  NaN is a   *)
(* value of its own.  Strings are sequences of one-character strings.      *)
(***************************************************************************)
EXTENDS Integers, Sequences, FiniteSets, TLC

\* ------------------------------------------------------------------ numbers

\* The grid: 1.0 is Scale.
Scale == 10000

\* Number.NaN, the coordinate of an unplaced node.
NaN == -99999999

IsFinite(v) == v # NaN

Abs(v) == IF v < 0 THEN -v ELSE v

Sgn(v) == IF v < 0 THEN -1 ELSE IF v > 0 THEN 1 ELSE 0

\* a / b rounded to the nearest integer, half away from zero (b > 0).
RoundDiv(a, b) == Sgn(a) * ((Abs(a) + (b \div 2)) \div b)

\* The product of two grid numbers, on the grid.
Mul(a, b) == RoundDiv(a * b, Scale)

\* The quotient of two grid numbers, on the grid (b # 0).
Div(a, b) == Sgn(b) * RoundDiv(a * Scale, Abs(b))

Min(a, b) == IF a <= b THEN a ELSE b

Max(a, b) == IF a >= b THEN a ELSE b

RECURSIVE SqrtFloor(_, _, _)
\* The largest r in lo..hi with r*r <= v, by bisection.
SqrtFloor(v, lo, hi) ==
  IF lo >= hi THEN lo
  ELSE LET mid == (lo + hi + 1) \div 2
       IN IF mid * mid <= v THEN SqrtFloor(v, mid, hi) ELSE SqrtFloor(v, lo, mid - 1)

\* Math.sqrt of v, v being a sum of squares of grid numbers: the result is on
\* the grid, rounded to the nearest point.
Sqrt(v) ==
  LET r == SqrtFloor(v, 0, 46340)
  IN IF v - r * r > r THEN r + 1 ELSE r

\* Math.min(1, Math.max(0, v))
Clamp01(v) == Min(Scale, Max(0, v))

\* ------------------------------------------------------------------ strings

\* The characters \s matches and trim() strips.
WsChars == {" ", "\t", "\n", "\r"}

DigitChars == {"0", "1", "2", "3", "4", "5", "6", "7", "8", "9"}

DigitVal(c) ==
  CASE c = "0" -> 0 [] c = "1" -> 1 [] c = "2" -> 2 [] c = "3" -> 3 [] c = "4" -> 4
    [] c = "5" -> 5 [] c = "6" -> 6 [] c = "7" -> 7 [] c = "8" -> 8 [] c = "9" -> 9

\* s.slice(i-1, j): the characters i..j of s (empty when j < i).
Slice(s, i, j) == IF j < i THEN << >> ELSE SubSeq(s, i, j)

RECURSIVE SkipWs(_, _)
\* The first position at or after i that holds no whitespace (Len(s)+1 at the end).
SkipWs(s, i) == IF i <= Len(s) /\ s[i] \in WsChars THEN SkipWs(s, i + 1) ELSE i

RECURSIVE SkipWsBack(_, _)
\* The last position at or before j that holds no whitespace (0 when there is none).
SkipWsBack(s, j) == IF j >= 1 /\ s[j] \in WsChars THEN SkipWsBack(s, j - 1) ELSE j

RECURSIVE SkipDigits(_, _)
\* The first position at or after i that holds no digit.
SkipDigits(s, i) == IF i <= Len(s) /\ s[i] \in DigitChars THEN SkipDigits(s, i + 1) ELSE i

\* String.prototype.trim
Trim(s) == Slice(s, SkipWs(s, 1), SkipWsBack(s, Len(s)))

\* The first position at or after i that holds the character c (Len(s)+1 when none).
RECURSIVE IndexOf(_, _, _)
IndexOf(s, c, i) == IF i > Len(s) \/ s[i] = c THEN i ELSE IndexOf(s, c, i + 1)

\* ------------------------------------------------------------- JS values

\* A frontmatter value: t is its type, n its number (a boolean's is 0 or 1),
\* s its characters (an array's: those of its join(",")).
NumV(v) == [t |-> "num", n |-> v, s |-> << >>]

StrV(cs) == [t |-> "str", n |-> 0, s |-> cs]

BoolV(b) == [t |-> "bool", n |-> IF b THEN 1 ELSE 0, s |-> << >>]

NullV == [t |-> "null", n |-> 0, s |-> << >>]

UndefV == [t |-> "undef", n |-> 0, s |-> << >>]

ArrV(joined) == [t |-> "arr", n |-> 0, s |-> joined]

\* An object item of a distance list, { target, path, id, distance, length }.
ObjV(tg, pa, id, di, le) ==
  [t |-> "obj", n |-> 0, s |-> << >>, target |-> tg, path |-> pa, id |-> id,
   distance |-> di, length |-> le]

\* ToBoolean
Truthy(v) ==
  CASE v.t = "num" -> v.n # 0 /\ v.n # NaN
    [] v.t = "str" -> Len(v.s) > 0
    [] v.t = "bool" -> v.n = 1
    [] v.t \in {"null", "undef"} -> FALSE
    [] OTHER -> TRUE

\* a || b
OrElse(a, b) == IF Truthy(a) THEN a ELSE b

\* a ?? b
Coalesce(a, b) == IF a.t \in {"null", "undef"} THEN b ELSE a

RECURSIVE IntVal(_, _, _)
\* The value of the digits i..j of s.
IntVal(s, i, j) == IF j < i THEN 0 ELSE IntVal(s, i, j - 1) * 10 + DigitVal(s[j])

RECURSIVE FracVal(_, _, _, _)
\* The value on the grid of the fraction digits i..j of s, w being the weight
\* of the digit before s[i]; digits finer than the grid are dropped.
FracVal(s, i, j, w) ==
  IF j < i \/ w < 10 THEN 0
  ELSE DigitVal(s[i]) * (w \div 10) + FracVal(s, i + 1, j, w \div 10)

\* StringToNumber for the signed decimal forms: whitespace is stripped, the
\* empty string is 0, [+-]digits[.digits] and [+-].digits are numbers, and
\* anything else is NaN.
StringToNumber(str) ==
  LET s == Trim(str)
      neg == Len(s) > 0 /\ s[1] = "-"
      st == IF Len(s) > 0 /\ s[1] \in {"-", "+"} THEN 2 ELSE 1
      ie == SkipDigits(s, st)
      dot == ie <= Len(s) /\ s[ie] = "."
      fe == IF dot THEN SkipDigits(s, ie + 1) ELSE ie
      nint == ie - st
      nfrac == IF dot THEN fe - ie - 1 ELSE 0
      mag == IntVal(s, st, ie - 1) * Scale + FracVal(s, ie + 1, fe - 1, Scale)
  IN IF Len(s) = 0 THEN 0
     ELSE IF fe = Len(s) + 1 /\ nint + nfrac > 0 THEN (IF neg THEN -mag ELSE mag)
     ELSE NaN

\* Number(v)
ToNumber(v) ==
  CASE v.t = "num" -> v.n
    [] v.t = "bool" -> v.n * Scale
    [] v.t = "null" -> 0
    [] v.t \in {"str", "arr"} -> StringToNumber(v.s)
    [] OTHER -> NaN

\* An optional number: null or undefined, or a number.
NoNum == [def |-> FALSE, v |-> 0]

Some(v) == [def |-> TRUE, v |-> v]

\* ------------------------------------------------------- length normalizer

\* The normalizer without the percentages: above 1 it rejects.
\* toRel that keeps a percentage as it is: a number from 0 to 100 is returned
\* undivided.
toRelUndivided(n) ==
  LET v == ToNumber(n)
  IN IF ~IsFinite(v) THEN NoNum
     ELSE IF v >= 0 /\ v <= 100 * Scale THEN Some(v)
     ELSE NoNum

toRelUnit(n) ==
  LET v == ToNumber(n)
  IN IF ~IsFinite(v) THEN NoNum
     ELSE IF v >= 0 /\ v <= Scale THEN Some(v)
     ELSE NoNum

toRel(n) ==
  LET v == ToNumber(n)
  IN IF ~IsFinite(v) THEN NoNum
     ELSE IF v >= 0 /\ v <= Scale THEN Some(v)
     ELSE IF v >= 0 /\ v <= 100 * Scale THEN Some(RoundDiv(v, 100))
     ELSE NoNum

\* ------------------------------------------------- distance expression parser

SepChars == {"@", "(", ":", "|"}

\* The characters the regular expressions' dot does not match.
LineTerminators == {"\n", "\r"}

NoLineTerminator(s, i, j) == \A k \in i..j : s[k] \notin LineTerminators

\* /^\s*\[\[(.+?)\]\]\s*$/ with the group of length k starting at i+2: "[[" at
\* i, i+1, the group, "]]", and whitespace to the end.
WikiAt(p, i, k) ==
  /\ k >= 1
  /\ i + k + 3 <= Len(p)
  /\ p[i] = "[" /\ p[i + 1] = "["
  /\ NoLineTerminator(p, i + 2, i + k + 1)
  /\ p[i + k + 2] = "]" /\ p[i + k + 3] = "]"
  /\ SkipWs(p, i + k + 4) = Len(p) + 1

\* p.match(/^\s*\[\[(.+?)\]\]\s*$/): the lazy group takes the shortest length
\* that lets the rest match.  ok is whether it matched, inside is w[1].
WikiMatch(p) ==
  LET i == SkipWs(p, 1)
      ks == {k \in 1..Len(p) : WikiAt(p, i, k)}
  IN IF ks = {} THEN [ok |-> FALSE, inside |-> << >>]
     ELSE LET k == CHOOSE m \in ks : \A o \in ks : m <= o
          IN [ok |-> TRUE, inside |-> Slice(p, i + 2, i + k + 1)]

\* The end of the numeral \d+(?:\.\d+)? starting at i: the position after it,
\* or i when no numeral starts there.
NumeralEnd(p, i) ==
  LET ie == SkipDigits(p, i)
      fe == IF ie > i /\ ie <= Len(p) /\ p[ie] = "." THEN SkipDigits(p, ie + 1) ELSE ie
  IN IF fe > ie + 1 THEN fe ELSE ie

\* \s*(?:@|\(|:|\|)\s*(\d+(?:\.\d+)?)\)?\s*$ matched from position j+1: the
\* places of the separator, of the numeral and of its end.
SuffixParts(p, j) ==
  LET q == SkipWs(p, j + 1)
      r == SkipWs(p, q + 1)
      e == NumeralEnd(p, r)
      c == IF e <= Len(p) /\ p[e] = ")" THEN e + 1 ELSE e
  IN [ok |-> /\ q <= Len(p)
             /\ p[q] \in SepChars
             /\ e > r
             /\ SkipWs(p, c) = Len(p) + 1,
      from |-> r, to |-> e - 1]

\* p.match(/^(.*?)\s*(?:@|\(|:|\|)\s*(\d+(?:\.\d+)?)\)?\s*$/): the lazy
\* prefix takes the shortest length j that lets the rest match.  pre is m[1],
\* num is m[2].
SuffixMatch(p) ==
  LET js == {j \in 0..Len(p) : NoLineTerminator(p, 1, j) /\ SuffixParts(p, j).ok}
  IN IF js = {} THEN [ok |-> FALSE, pre |-> << >>, num |-> << >>]
     ELSE LET j == CHOOSE m \in js : \A o \in js : m <= o
              sp == SuffixParts(p, j)
          IN [ok |-> TRUE, pre |-> Slice(p, 1, j), num |-> Slice(p, sp.from, sp.to)]

\* inside.split('#'): the first two pieces; frag is undefined when inside
\* holds no '#'.
SplitHash(inside) ==
  LET h1 == IndexOf(inside, "#", 1)
      h2 == IndexOf(inside, "#", h1 + 1)
  IN [linkPath |-> Slice(inside, 1, h1 - 1),
      hasFrag |-> h1 <= Len(inside),
      frag |-> Slice(inside, h1 + 1, h2 - 1)]

\* The parse of a string item that keeps the whitespace around the delimited
\* form's phrase.
ParseStringUntrimmed(p) ==
  LET w == WikiMatch(p)
      sh == SplitHash(w.inside)
      m == SuffixMatch(p)
  IN IF w.ok
     THEN [target |-> IF Len(sh.linkPath) > 0 THEN StrV(Trim(sh.linkPath)) ELSE UndefV,
           lengthRel |-> IF sh.hasFrag /\ Len(sh.frag) > 0
                         THEN toRel(StrV(Trim(sh.frag))) ELSE NoNum]
     ELSE IF m.ok
     THEN [target |-> StrV(m.pre), lengthRel |-> toRel(StrV(m.num))]
     ELSE [target |-> StrV(Trim(p)), lengthRel |-> NoNum]

\* The target and the length of a string item.
ParseString(p) ==
  LET w == WikiMatch(p)
      sh == SplitHash(w.inside)
      m == SuffixMatch(p)
  IN IF w.ok
     THEN [target |-> IF Len(sh.linkPath) > 0 THEN StrV(Trim(sh.linkPath)) ELSE UndefV,
           lengthRel |-> IF sh.hasFrag /\ Len(sh.frag) > 0
                         THEN toRel(StrV(Trim(sh.frag))) ELSE NoNum]
     ELSE IF m.ok
     THEN [target |-> StrV(Trim(m.pre)), lengthRel |-> toRel(StrV(m.num))]
     ELSE [target |-> StrV(Trim(p)), lengthRel |-> NoNum]

\* The parse of an object item that reads length before distance.
ParseObjectLengthFirst(p) ==
  [target |-> OrElse(p.target, OrElse(p.path, p.id)),
   lengthRel |-> toRel(Coalesce(p.length, p.distance))]

\* The target and the length of an object item.
ParseObject(p) ==
  [target |-> OrElse(p.target, OrElse(p.path, p.id)),
   lengthRel |-> toRel(Coalesce(p.distance, p.length))]

\* The body of the loop over the items of a distance list, up to the test of
\* the target: target is undefined when the item gives none.
ParseItem(p) ==
  IF p.t = "str" THEN ParseString(p.s)
  ELSE IF p.t = "obj" THEN ParseObject(p)
  ELSE [target |-> UndefV, lengthRel |-> NoNum]

\* ------------------------------------------------------------ graph builder

\* 'location', the type of a record that gives none.
Location == <<"l", "o", "c", "a", "t", "i", "o", "n">>

\* app.metadataCache.getFirstLinkpathDest?.(target, from)?.path ?? target:
\* links is the set of the link names the host resolves, each with the file
\* the link is in and the file it leads to.
ResolveLink(links, target, from) ==
  IF \E l \in links : l.name = target /\ l.from = from
  THEN (CHOOSE l \in links : l.name = target /\ l.from = from).path
  ELSE target

\* The test of the loop over the entries that stops at the file path: it does
\* not ask the vault for the file.
HasFilePath(files, entry) == Len(entry.path) > 0

\* Whether the loop over the entries builds a node for the entry: it has a
\* file path and the vault holds a file there.
HasFile(files, entry) == Len(entry.path) > 0 /\ entry.path \in files

\* The node of an entry: unplaced.
BuildNode(entry) ==
  [id |-> entry.path,
   type |-> IF Truthy(entry.type) THEN entry.type.s ELSE Location,
   x |-> NaN, y |-> NaN]

RECURSIVE Flatten(_)
\* combined: the items of the arrays under the distance keys, in key order.
Flatten(lists) == IF lists = << >> THEN << >> ELSE Head(lists) \o Flatten(Tail(lists))

\* The edge with the target resolved whatever resolveLinks is.
BuildEdgeResolved(links, resolveLinks, path, parsed) ==
  [fromId |-> path,
   toId |-> ResolveLink(links, parsed.target.s, path),
   length |-> parsed.lengthRel]

\* The edge resolveLinks and the parsed item give, from the file at path.
BuildEdge(links, resolveLinks, path, parsed) ==
  [fromId |-> path,
   toId |-> IF resolveLinks THEN ResolveLink(links, parsed.target.s, path)
            ELSE parsed.target.s,
   length |-> parsed.lengthRel]

RECURSIVE ItemEdgesMeasured(_, _, _, _)
\* The edges of the items when an item without accepted length gives no edge.
ItemEdgesMeasured(links, resolveLinks, path, items) ==
  IF items = << >> THEN << >>
  ELSE LET parsed == ParseItem(Head(items))
           rest == ItemEdgesMeasured(links, resolveLinks, path, Tail(items))
       IN IF parsed.target.t = "str" /\ parsed.lengthRel.def
          THEN <<BuildEdge(links, resolveLinks, path, parsed)>> \o rest
          ELSE rest

RECURSIVE ItemEdges(_, _, _, _)
\* The edges of the items of one entry, in item order: one for every item
\* whose target is a string.
ItemEdges(links, resolveLinks, path, items) ==
  IF items = << >> THEN << >>
  ELSE LET parsed == ParseItem(Head(items))
           rest == ItemEdges(links, resolveLinks, path, Tail(items))
       IN IF parsed.target.t = "str"
          THEN <<BuildEdge(links, resolveLinks, path, parsed)>> \o rest
          ELSE rest

\* opt?.resolveLinks ?? true
ResolveLinksOf(o) == IF o.resolveLinks.t \in {"null", "undef"} THEN TRUE ELSE Truthy(o.resolveLinks)

RECURSIVE BuildNodes(_, _)
\* nodes of buildMapDataFromEntries
BuildNodes(host, ents) ==
  IF ents = << >> THEN << >>
  ELSE IF HasFile(host.files, Head(ents))
       THEN <<BuildNode(Head(ents))>> \o BuildNodes(host, Tail(ents))
       ELSE BuildNodes(host, Tail(ents))

RECURSIVE BuildEdges(_, _, _)
\* edges of buildMapDataFromEntries
BuildEdges(host, ents, o) ==
  IF ents = << >> THEN << >>
  ELSE IF HasFile(host.files, Head(ents))
       THEN ItemEdges(host.links, ResolveLinksOf(o), Head(ents).path,
                      Flatten(Head(ents).lists))
            \o BuildEdges(host, Tail(ents), o)
       ELSE BuildEdges(host, Tail(ents), o)

\* ------------------------------------------------------------- layout solver

\* The defaults of layoutNodesByDistances and of projectRelativePositions.
DefaultEdgeLengthRel == 2500

DefaultIterations == 200

DefaultStiffness == 5000

DefaultDamping == 8500

\* The lengths of the canvas (width, height, padding) are on a grid of 1/Px
\* pixel: a length of p pixels is p * Px.
Px == 2

DefaultWidth == 800

DefaultHeight == 600

DefaultPadding == 24

\* A destructured option: the default when it is undefined.
OrDefault(o, d) == IF o.def THEN o.v ELSE d

IterationsOf(o) == OrDefault(o.iterations, DefaultIterations)

\* (Math.cos(i * step), Math.sin(i * step)) for step = 2 * Math.PI / n and
\* i = 0 .. n-1, on the grid; row n of the table.
CircleTable ==
  << <<<<10000, 0>>>>,
     <<<<10000, 0>>, <<-10000, 0>>>>,
     <<<<10000, 0>>, <<-5000, 8660>>, <<-5000, -8660>>>>,
     <<<<10000, 0>>, <<0, 10000>>, <<-10000, 0>>, <<0, -10000>>>>,
     <<<<10000, 0>>, <<3090, 9511>>, <<-8090, 5878>>, <<-8090, -5878>>, <<3090, -9511>>>>,
     <<<<10000, 0>>, <<5000, 8660>>, <<-5000, 8660>>, <<-10000, 0>>, <<-5000, -8660>>,
       <<5000, -8660>>>> >>

\* The radius 0.4 of the initial circle.
CircleRadius == 4000

Placed(nd) == IsFinite(nd.x) /\ IsFinite(nd.y)

\* The initialization: when a node lacks coordinates, every node that lacks
\* them is placed on the circle, by its index (i is from 1 here, from 0 there).
InitPlace(ns) ==
  [i \in 1..Len(ns) |->
     IF Placed(ns[i]) THEN ns[i]
     ELSE [ns[i] EXCEPT !.x = (Scale \div 2) + Mul(CircleRadius, CircleTable[Len(ns)][i][1]),
                        !.y = (Scale \div 2) + Mul(CircleRadius, CircleTable[Len(ns)][i][2])]]

\* maxLen: the largest finite edge length, 0 when there is none.
MaxLen(es) ==
  LET lens == {es[i].length.v : i \in {k \in 1..Len(es) : es[k].length.def}}
  IN IF lens = {} THEN 0 ELSE CHOOSE m \in lens : \A o \in lens : o <= m

\* The rescale that does not look at normalizeAbsoluteLengths.
RescaleAlways(es, o) ==
  IF MaxLen(es) > Scale
  THEN [i \in 1..Len(es) |->
          IF es[i].length.def
          THEN [es[i] EXCEPT !.length = Some(Div(es[i].length.v, MaxLen(es)))]
          ELSE es[i]]
  ELSE es

\* The normalization of absolute lengths: with the option on and a length
\* above 1, every length is divided by the largest.
Rescale(es, o) ==
  IF Truthy(o.normalizeAbsoluteLengths) /\ MaxLen(es) > Scale
  THEN [i \in 1..Len(es) |->
          IF es[i].length.def
          THEN [es[i] EXCEPT !.length = Some(Div(es[i].length.v, MaxLen(es)))]
          ELSE es[i]]
  ELSE es

\* nodes.find((nd) => nd.id === id): the index of the first node with the
\* id, 0 when there is none.
FindNode(ns, id) ==
  LET is == {i \in 1..Len(ns) : ns[i].id = id}
  IN IF is = {} THEN 0 ELSE CHOOSE i \in is : \A k \in is : i <= k

\* The target length chosen with || in place of ??: a length of 0 gives way
\* to the default.
TargetLengthOr(e, o) ==
  IF e.length.def /\ e.length.v # 0 THEN e.length.v
  ELSE OrDefault(o.defaultEdgeLengthRel, DefaultEdgeLengthRel)

\* const L = e.length ?? defaultEdgeLengthRel
TargetLength(e, o) ==
  IF e.length.def THEN e.length.v ELSE OrDefault(o.defaultEdgeLengthRel, DefaultEdgeLengthRel)

\* Math.sqrt(dx * dx + dy * dy) of the edge's endpoints at a and b.  Where the
\* code replaces a distance of 0 by 1e-6, dx and dy are 0 and so are the unit
\* vector and the move; the grid keeps the 0.
Dist(ns, a, b) ==
  LET dx == ns[b].x - ns[a].x
      dy == ns[b].y - ns[a].y
  IN Sqrt(dx * dx + dy * dy)

\* force * u * damping * h for h = -0.5 or 0.5, in the order the code
\* multiplies.
Move(force, u, damping, h) == Mul(Mul(Mul(force, u), damping), h)

\* The move that leaves the edge's target where it is: only the source moves.
MovedSource(ns, a, b, L, o) ==
  LET dx == ns[b].x - ns[a].x
      dy == ns[b].y - ns[a].y
      d == Dist(ns, a, b)
      force == Mul(OrDefault(o.stiffness, DefaultStiffness), d - L)
      ux == IF d = 0 THEN 0 ELSE Div(dx, d)
      uy == IF d = 0 THEN 0 ELSE Div(dy, d)
      damping == OrDefault(o.damping, DefaultDamping)
  IN <<ns[a].x + Move(force, ux, damping, -(Scale \div 2)),
       ns[a].y + Move(force, uy, damping, -(Scale \div 2)),
       ns[b].x,
       ns[b].y>>

\* The move whose target's half is not damped.
MovedUndampedTarget(ns, a, b, L, o) ==
  LET dx == ns[b].x - ns[a].x
      dy == ns[b].y - ns[a].y
      d == Dist(ns, a, b)
      force == Mul(OrDefault(o.stiffness, DefaultStiffness), d - L)
      ux == IF d = 0 THEN 0 ELSE Div(dx, d)
      uy == IF d = 0 THEN 0 ELSE Div(dy, d)
      damping == OrDefault(o.damping, DefaultDamping)
  IN <<ns[a].x + Move(force, ux, damping, -(Scale \div 2)),
       ns[a].y + Move(force, uy, damping, -(Scale \div 2)),
       ns[b].x + Move(force, ux, Scale, Scale \div 2),
       ns[b].y + Move(force, uy, Scale, Scale \div 2)>>

\* The move that takes (1, 0) for the unit vector of endpoints at one point.
MovedNudged(ns, a, b, L, o) ==
  LET dx == ns[b].x - ns[a].x
      dy == ns[b].y - ns[a].y
      d == Dist(ns, a, b)
      force == Mul(OrDefault(o.stiffness, DefaultStiffness), d - L)
      ux == IF d = 0 THEN Scale ELSE Div(dx, d)
      uy == IF d = 0 THEN 0 ELSE Div(dy, d)
      damping == OrDefault(o.damping, DefaultDamping)
      ax == ns[a].x + Move(force, ux, damping, -(Scale \div 2))
      ay == ns[a].y + Move(force, uy, damping, -(Scale \div 2))
      bx == (IF a = b THEN ax ELSE ns[b].x) + Move(force, ux, damping, Scale \div 2)
      by == (IF a = b THEN ay ELSE ns[b].y) + Move(force, uy, damping, Scale \div 2)
  IN <<ax, ay, bx, by>>

\* The positions of the endpoints a and b after the four assignments that move
\* them, before the clamp: <<a.x, a.y, b.x, b.y>>.  The assignments read the
\* nodes one after the other, so with a = b the later ones read the earlier.
Moved(ns, a, b, L, o) ==
  LET dx == ns[b].x - ns[a].x
      dy == ns[b].y - ns[a].y
      d == Dist(ns, a, b)
      error == d - L
      force == Mul(OrDefault(o.stiffness, DefaultStiffness), error)
      ux == IF d = 0 THEN 0 ELSE Div(dx, d)
      uy == IF d = 0 THEN 0 ELSE Div(dy, d)
      damping == OrDefault(o.damping, DefaultDamping)
      ax == ns[a].x + Move(force, ux, damping, -(Scale \div 2))
      ay == ns[a].y + Move(force, uy, damping, -(Scale \div 2))
      bx == (IF a = b THEN ax ELSE ns[b].x) + Move(force, ux, damping, Scale \div 2)
      by == (IF a = b THEN ay ELSE ns[b].y) + Move(force, uy, damping, Scale \div 2)
  IN <<ax, ay, bx, by>>

\* The loop body without its clamp: the endpoints keep the moved coordinates.
EdgeUpdateUnclamped(ns, e, L, o) ==
  LET a == FindNode(ns, e.fromId)
      b == FindNode(ns, e.toId)
      m == Moved(ns, a, b, L, o)
  IN IF a = 0 \/ b = 0 THEN ns
     ELSE IF a = b
          THEN [ns EXCEPT ![a] = [@ EXCEPT !.x = m[3], !.y = m[4]]]
          ELSE [ns EXCEPT ![a] = [@ EXCEPT !.x = m[1], !.y = m[2]],
                          ![b] = [@ EXCEPT !.x = m[3], !.y = m[4]]]

\* The loop body that clamps the edge's target only.
EdgeUpdateClampTarget(ns, e, L, o) ==
  LET a == FindNode(ns, e.fromId)
      b == FindNode(ns, e.toId)
      m == Moved(ns, a, b, L, o)
  IN IF a = 0 \/ b = 0 THEN ns
     ELSE IF a = b
          THEN [ns EXCEPT ![a] = [@ EXCEPT !.x = Clamp01(m[3]), !.y = Clamp01(m[4])]]
          ELSE [ns EXCEPT ![a] = [@ EXCEPT !.x = m[1], !.y = m[2]],
                          ![b] = [@ EXCEPT !.x = Clamp01(m[3]), !.y = Clamp01(m[4])]]

\* One pass of the body of the loop over the edges, L being the target length:
\* an edge with an endpoint that is no node is skipped; otherwise both
\* endpoints move and are clamped.
EdgeUpdateWith(ns, e, L, o) ==
  LET a == FindNode(ns, e.fromId)
      b == FindNode(ns, e.toId)
      m == Moved(ns, a, b, L, o)
  IN IF a = 0 \/ b = 0 THEN ns
     ELSE IF a = b
          THEN [ns EXCEPT ![a] = [@ EXCEPT !.x = Clamp01(Clamp01(m[3])),
                                           !.y = Clamp01(Clamp01(m[4]))]]
          ELSE [ns EXCEPT ![a] = [@ EXCEPT !.x = Clamp01(m[1]), !.y = Clamp01(m[2])],
                          ![b] = [@ EXCEPT !.x = Clamp01(m[3]), !.y = Clamp01(m[4])]]

\* The update that takes the last node for a target that is no node.
EdgeUpdateLast(ns, e, o) ==
  EdgeUpdateWith(ns,
                 [e EXCEPT !.toId = IF FindNode(ns, e.toId) = 0 THEN ns[Len(ns)].id ELSE e.toId],
                 TargetLength(e, o), o)

EdgeUpdate(ns, e, o) == EdgeUpdateWith(ns, e, TargetLength(e, o), o)

RECURSIVE Round(_, _, _, _)
\* The inner loop from the edge at k on: one round of updates, in edge order.
Round(ns, es, k, o) ==
  IF k > Len(es) THEN ns ELSE Round(EdgeUpdate(ns, es[k], o), es, k + 1, o)

RECURSIVE Rounds(_, _, _, _)
\* The outer loop: r rounds.
Rounds(ns, es, r, o) == IF r <= 0 THEN ns ELSE Rounds(Round(ns, es, 1, o), es, r - 1, o)

\* The nodes as layoutNodesByDistances leaves them.
Layout(ns, es, o) ==
  IF Len(ns) = 0 THEN ns ELSE Rounds(InitPlace(ns), Rescale(es, o), IterationsOf(o), o)

\* ------------------------------------------------------------------ projector

\* The projection that scales by the canvas instead of by the canvas within
\* its padding.
ProjectByCanvas(ns, o) ==
  LET padding == OrDefault(o.padding, DefaultPadding * Px)
  IN [i \in 1..Len(ns) |->
        [ns[i] EXCEPT !.x = padding * Scale
                            + Clamp01(ns[i].x) * OrDefault(o.width, DefaultWidth * Px),
                      !.y = padding * Scale
                            + Clamp01(ns[i].y) * OrDefault(o.height, DefaultHeight * Px)]]

\* projectRelativePositions: pixel coordinates, in units of 1/(Px * Scale) pixel.
Project(ns, o) ==
  LET padding == OrDefault(o.padding, DefaultPadding * Px)
      innerW == Max(1 * Px, OrDefault(o.width, DefaultWidth * Px) - padding * 2)
      innerH == Max(1 * Px, OrDefault(o.height, DefaultHeight * Px) - padding * 2)
  IN [i \in 1..Len(ns) |->
        [ns[i] EXCEPT !.x = padding * Scale + Clamp01(ns[i].x) * innerW,
                      !.y = padding * Scale + Clamp01(ns[i].y) * innerH]]

\* ------------------------------------------------------------------- renderer

\* nodesById.get(id) for nodesById = new Map(nodes.map((n) => [n.id, n])): the
\* index of the last node with the id, 0 when there is none.
GetNode(ns, id) ==
  LET is == {i \in 1..Len(ns) : ns[i].id = id}
  IN IF is = {} THEN 0 ELSE CHOOSE i \in is : \A k \in is : k <= i

\* drawEdge: the line of an edge with both endpoints among the nodes, nothing
\* for any other edge.
DrawEdge(ns, e) ==
  LET a == GetNode(ns, e.fromId)
      b == GetNode(ns, e.toId)
  IN IF a = 0 \/ b = 0 THEN << >>
     ELSE <<[x1 |-> ns[a].x, y1 |-> ns[a].y, x2 |-> ns[b].x, y2 |-> ns[b].y]>>

RECURSIVE DrawEdges(_, _)
\* The lines of the loop over the edges, in edge order.
DrawEdges(ns, es) ==
  IF es = << >> THEN << >> ELSE DrawEdge(ns, Head(es)) \o DrawEdges(ns, Tail(es))

\* ---------------------------------------------------------------------- state

VARIABLES
  pc,       \* where the run is: "toRel", "build", "layout", "iterate", "project", "draw", "done"
  arg,      \* the argument of a call of toRel
  ret,      \* what the call of toRel returned
  host,     \* the host application: the vault's files and the links it resolves
  entries,  \* the entries of the base
  opt,      \* the MapOptions
  call,     \* the nodes and the edges as layoutNodesByDistances received them
  nodes,    \* the MapNode list
  edges,    \* the MapEdge list
  iter,     \* the solver's round, from 0
  ei,       \* the place in the edge list of the solver's loop, from 1
  lines,    \* the lines drawn, in order
  vault,    \* the vault's notes: the frontmatter of each file it holds
  view,     \* the Input view: which source it is of, its data and its cells
  writes,   \* the calls of processFrontMatter that changed a note, in order
  pan       \* the drag-pan of the map: the closure of enableDragPan and the transform shown

vars == <<pc, arg, ret, host, entries, opt, call, nodes, edges, iter, ei, lines,
          vault, view, writes, pan>>

\* The state of the map's pipeline, and the state of the Input view and of the
\* drag-pan.
mapVars == <<pc, arg, ret, host, entries, opt, call, nodes, edges, iter, ei, lines>>

uiVars == <<vault, view, writes, pan>>

\* ------------------------------------------------------------------- actions

\* A call of toRel.
ToRelCall ==
  /\ pc = "toRel"
  /\ ret' = toRel(arg)
  /\ pc' = "done"
  /\ UNCHANGED <<arg, host, entries, opt, call, nodes, edges, iter, ei, lines>>
  /\ UNCHANGED uiVars

\* buildMapDataFromEntries, and the test of renderMapSVGFromEntries that ends
\* the rendering when there is no node.
Build ==
  /\ pc = "build"
  /\ nodes' = BuildNodes(host, entries)
  /\ edges' = BuildEdges(host, entries, opt)
  /\ call' = [nodes |-> nodes', edges |-> edges']
  /\ pc' = IF nodes' = << >> THEN "done" ELSE "layout"
  /\ UNCHANGED <<arg, ret, host, entries, opt, iter, ei, lines>>
  /\ UNCHANGED uiVars

\* layoutNodesByDistances up to its loops, with a jitter of the initial
\* placement: each run shifts the nodes to the right by nothing or by a
\* hundredth.
LayoutBeginJitter ==
  /\ pc = "layout"
  /\ IF Len(nodes) = 0
     THEN pc' = "project" /\ UNCHANGED <<nodes, edges>>
     ELSE /\ edges' = Rescale(edges, opt)
          /\ \E jitter \in {0, 100} :
               nodes' = [i \in 1..Len(nodes) |->
                           [InitPlace(nodes)[i] EXCEPT !.x = Clamp01(@ + jitter)]]
          /\ pc' = "iterate"
  /\ iter' = 0
  /\ ei' = 1
  /\ UNCHANGED <<arg, ret, host, entries, opt, call, lines>>
  /\ UNCHANGED uiVars

\* layoutNodesByDistances up to its loops: nothing without nodes; otherwise the
\* normalization of the lengths and the initial placement.
LayoutBegin ==
  /\ pc = "layout"
  /\ IF Len(nodes) = 0
     THEN pc' = "project" /\ UNCHANGED <<nodes, edges>>
     ELSE /\ edges' = Rescale(edges, opt)
          /\ nodes' = InitPlace(nodes)
          /\ pc' = "iterate"
  /\ iter' = 0
  /\ ei' = 1
  /\ UNCHANGED <<arg, ret, host, entries, opt, call, lines>>
  /\ UNCHANGED uiVars

\* The body of the inner loop, for the edge at ei.
EdgeStep ==
  /\ pc = "iterate"
  /\ iter < IterationsOf(opt)
  /\ ei <= Len(edges)
  /\ nodes' = EdgeUpdate(nodes, edges[ei], opt)
  /\ ei' = ei + 1
  /\ UNCHANGED <<pc, arg, ret, host, entries, opt, call, edges, iter, lines>>
  /\ UNCHANGED uiVars

\* The end of the inner loop: the next round.
RoundEnd ==
  /\ pc = "iterate"
  /\ iter < IterationsOf(opt)
  /\ ei > Len(edges)
  /\ iter' = iter + 1
  /\ ei' = 1
  /\ UNCHANGED <<pc, arg, ret, host, entries, opt, call, nodes, edges, lines>>
  /\ UNCHANGED uiVars

\* The end of the outer loop with an exit on convergence: the solver also
\* returns at the start of a round when no edge has an error.
LayoutEndEarly ==
  /\ pc = "iterate"
  /\ \/ iter >= IterationsOf(opt)
     \/ /\ ei = 1
        /\ \A k \in 1..Len(edges) :
             LET a == FindNode(nodes, edges[k].fromId)
                 b == FindNode(nodes, edges[k].toId)
             IN a = 0 \/ b = 0 \/ Dist(nodes, a, b) = TargetLength(edges[k], opt)
  /\ pc' = "project"
  /\ UNCHANGED <<arg, ret, host, entries, opt, call, nodes, edges, iter, ei, lines>>
  /\ UNCHANGED uiVars

\* The end of the outer loop: layoutNodesByDistances returns.
LayoutEnd ==
  /\ pc = "iterate"
  /\ iter >= IterationsOf(opt)
  /\ pc' = "project"
  /\ UNCHANGED <<arg, ret, host, entries, opt, call, nodes, edges, iter, ei, lines>>
  /\ UNCHANGED uiVars

\* projectRelativePositions
ProjectStep ==
  /\ pc = "project"
  /\ nodes' = Project(nodes, opt)
  /\ pc' = "draw"
  /\ UNCHANGED <<arg, ret, host, entries, opt, call, edges, iter, ei, lines>>
  /\ UNCHANGED uiVars

\* The loop of renderMapSVGFromEntries that draws the edges.
Draw ==
  /\ pc = "draw"
  /\ lines' = DrawEdges(nodes, edges)
  /\ pc' = "done"
  /\ UNCHANGED <<arg, ret, host, entries, opt, call, nodes, edges, iter, ei>>
  /\ UNCHANGED uiVars

\* --------------------------------------------------------------------- inputs

\* The bounds of the inputs.
MaxWhole == 101

MaxIter == 3

\* The arguments of toRel: numbers around every whole number up to MaxWhole,
\* NaN, strings, booleans, null, undefined, arrays and an object.
NormNumbers == {w * Scale + f : w \in (-2)..MaxWhole, f \in {0, 1, Scale \div 2}} \cup {NaN}
NormStrings ==
  {<< >>,
   <<" ">>,
   <<"0", ".", "4">>,
   <<" ", "4", "0", " ">>,
   <<"1", "5", "0">>,
   <<"a", "b", "c">>,
   <<"-", "1">>,
   <<"1", ".", "0", "0", "0", "1">>,
   <<"5", "x">>,
   <<"+", "5">>,
   <<".", "5">>,
   <<"5", ".">>,
   <<".">>}
NormInputs ==
  {NumV(v) : v \in NormNumbers} \cup {StrV(cs) : cs \in NormStrings}
  \cup {BoolV(TRUE), BoolV(FALSE), NullV, UndefV}
  \cup {ArrV(<< >>), ArrV(<<"5">>), ArrV(<<"1", ",", "2">>), ObjV(UndefV, UndefV, UndefV, UndefV, UndefV)}

\* The parts of the string items of the delimited form.
Phrases ==
  {<<"C", "i", "t", "y", "A">>,
   <<"B">>,
   <<" ", "B">>,
   <<"A", ":", "5">>,
   <<"B", " ", "@", " ", "2", " ", "(">>,
   << >>,
   <<"A", "\n", "B">>,
   <<"[", "[", "B", "]", "]">>}

Numerals ==
  {<<"0", ".", "4">>,
   <<"4", "0">>,
   <<"0">>,
   <<"1", "5", "0">>,
   <<"1", ".", "0", "0", "0", "1">>}

Spaces == {<< >>, <<" ">>}

Closers == {<< >>, <<")">>}

\* The string of a phrase, a separator, a numeral and a closer, with the
\* whitespace w1 and w2 around the separator.
Delimited(T, w1, sep, w2, N, cl) == T \o w1 \o <<sep>> \o w2 \o N \o cl

DelimitedItems ==
  {Delimited(T, w1, sep, w2, N, cl) :
     T \in Phrases, w1 \in Spaces, sep \in SepChars, w2 \in Spaces, N \in Numerals,
     cl \in Closers}

\* The parts of the string items of the bracketed form.
LinkPaths ==
  {<<"C", "i", "t", "y", "B">>,
   <<"B">>,
   <<" ", "B", " ">>,
   <<"A", ":", "5">>,
   << >>,
   <<" ">>,
   <<"A", "]">>}

Fragments ==
  {<<"5", "0">>,
   <<"0", ".", "4">>,
   <<"1", "5", "0">>,
   << >>,
   <<" ">>,
   <<"x">>,
   <<"5", "#", "6">>,
   <<" ", "4", "0", " ">>,
   <<"1", ".", "0", "0", "0", "1">>}

\* The text after the link path: nothing, or '#' and a fragment.
HashParts == {<< >>} \cup {<<"#">> \o F : F \in Fragments}

\* The string [[T H]] with the whitespace l and r around it.
Bracketed(l, T, H, r) == l \o <<"[", "[">> \o T \o H \o <<"]", "]">> \o r

BracketedItems ==
  {Bracketed(l, T, H, r) : l \in Spaces, T \in LinkPaths, H \in HashParts, r \in Spaces}

BareItems ==
  {<<"C", "i", "t", "y", "C">>,
   <<" ", "B", " ">>,
   << >>,
   <<" ", " ">>,
   <<"A", ":">>,
   <<"A", " ", "@", " ", "x">>,
   <<"A", " ", "(", "0", ".", "4", ")", " ", "x">>,
   <<"A", " ", "@", " ", ".", "5">>,
   <<"A", " ", "@", " ", "5", ".">>,
   <<"A", "\n", "B">>}

\* The object items: each field absent or one of a few values.
ObjectItems ==
  {ObjV(tg, pa, id, di, le) :
     tg \in {UndefV, StrV(<<"B">>), StrV(<< >>), NumV(5 * Scale)},
     pa \in {UndefV, StrV(<<"C">>)},
     id \in {UndefV, StrV(<<"D">>), StrV(<< >>)},
     di \in {UndefV, NullV, NumV(4000), NumV(150 * Scale), NumV(0), BoolV(TRUE), StrV(<< >>)},
     le \in {UndefV, NullV, NumV(40 * Scale)}}

\* The items that are neither strings nor objects with fields.
OtherItems == {NumV(5 * Scale), BoolV(TRUE), NullV, UndefV}

ParseItems ==
  {StrV(cs) : cs \in DelimitedItems \cup BracketedItems \cup BareItems}
  \cup ObjectItems \cup OtherItems

\* The files of the vault.
FileA == <<"A">>

FileB == <<"B">>

FileC == <<"C">>

\* A path that is no file's, and so an id that is no node's.
NoFile == <<"Z">>

\* An entry of the base: the path of its file, the type in its frontmatter and
\* the arrays under the distance keys, in key order.
Entry(path, lists) == [path |-> path, type |-> UndefV, lists |-> lists]

Unset == NoNum

\* MapOptions.
Options(w, h, pad, dl, it, k, dmp, rl, nal) ==
  [width |-> w, height |-> h, padding |-> pad, defaultEdgeLengthRel |-> dl,
   iterations |-> it, stiffness |-> k, damping |-> dmp, resolveLinks |-> rl,
   normalizeAbsoluteLengths |-> nal]

\* The options of the map view with the default settings: a canvas of 1024 by
\* 768 pixels, the padding left to its default.
ViewOptions(it) ==
  Options(Some(1024 * Px), Some(768 * Px), Unset, Some(5000), it, Some(800), Some(8500),
          BoolV(TRUE), BoolV(TRUE))

\* The option profiles of the runs: the view's, the empty options, a stiff
\* undamped solver on a small canvas, a canvas smaller than its padding, and a
\* canvas of 48.5 by 49 pixels, half a pixel and a pixel larger than its
\* padding.
Profiles(it) ==
  {ViewOptions(it),
   Options(Unset, Unset, Unset, Unset, it, Unset, Unset, UndefV, UndefV),
   Options(Some(100 * Px), Some(80 * Px), Some(24 * Px), Some(Scale), it, Some(Scale),
           Some(Scale), BoolV(FALSE), BoolV(FALSE)),
   Options(Some(40 * Px), Some(30 * Px), Some(24 * Px), Some(500), it, Some(5000),
           Some(5000), UndefV, BoolV(TRUE)),
   Options(Some(48 * Px + 1), Some(49 * Px), Some(24 * Px), Some(5000), it, Some(800),
           Some(8500), UndefV, UndefV)}

IdleHost == [files |-> {}, links |-> {}]

IdleCall == [nodes |-> << >>, edges |-> << >>]

\* The Input view before it is opened, a vault without notes, and the map's
\* drag-pan as enableDragPan sets it up: no drag, no offset, and no transform
\* on the content group.
IdleVault == [f \in {} |-> << >>]

IdleView == [impl |-> "none", renderProperty |-> FALSE, entries |-> << >>,
             properties |-> << >>, cells |-> << >>]

\* The pointers of the devices: a mouse and a finger, say.
Pointers == {1, 2}

\* A pointer: whether it is pressed, where it is, and where it was pressed.
IdlePointer == [down |-> FALSE, x |-> 0, y |-> 0, fromX |-> 0, fromY |-> 0]

\* The closure of enableDragPan (isPanning, startX, startY, panX, panY), the
\* transform of the content group (shown: whether it has one; tx, ty: its
\* translate), the pointers, the sum of the deltas of the drags that have
\* ended, and the number of the events so far.
IdlePan == [isPanning |-> FALSE, startX |-> 0, startY |-> 0, panX |-> 0, panY |-> 0,
            shown |-> FALSE, tx |-> 0, ty |-> 0,
            pointers |-> [p \in Pointers |-> IdlePointer],
            sumX |-> 0, sumY |-> 0, events |-> 0]

IdleUI ==
  /\ vault = IdleVault
  /\ view = IdleView
  /\ writes = << >>
  /\ pan = IdlePan

\* The map's pipeline before a run, but for its place, host, entries and
\* options.
IdleMap ==
  /\ arg = UndefV
  /\ ret = NoNum
  /\ call = IdleCall
  /\ nodes = << >>
  /\ edges = << >>
  /\ iter = 0
  /\ ei = 1
  /\ lines = << >>

\* What is the same at the start of every run of the map's pipeline.
Idle == IdleMap /\ IdleUI

\* A call of toRel on one of the arguments.
InitNorm ==
  /\ pc = "toRel"
  /\ arg \in NormInputs
  /\ ret = NoNum
  /\ host = IdleHost
  /\ entries = << >>
  /\ opt = ViewOptions(Some(0))
  /\ call = IdleCall
  /\ nodes = << >>
  /\ edges = << >>
  /\ iter = 0
  /\ ei = 1
  /\ lines = << >>
  /\ IdleUI

NextNorm == ToRelCall

SpecNorm == InitNorm /\ [][NextNorm]_vars

\* The build of a base of one entry whose distance list is one item.
InitParse ==
  /\ pc = "build"
  /\ host = [files |-> {FileA}, links |-> {}]
  /\ \E item \in ParseItems : entries = <<Entry(FileA, << <<item>> >>)>>
  /\ opt = ViewOptions(Some(0))
  /\ Idle

NextParse == Build

SpecParse == InitParse /\ [][NextParse]_vars

\* The distance lists of the entries of the graphs.
ListsA ==
  {<< >>,
   <<StrV(<<"B", " ", "@", " ", "0", ".", "5">>)>>,
   <<StrV(<<"B">>)>>,
   <<StrV(<<"B", " ", "@", " ", "0">>), StrV(<<"Z", " ", "@", " ", "0", ".", "3">>)>>,
   <<StrV(<<"[", "[", "C", "#", "9", "0", "]", "]">>), StrV(<<"B", ":", "2", "0">>)>>,
   <<StrV(<<"C", "i", "t", "y", "B", " ", "@", " ", "1">>), StrV(<<"A", " ", "@", " ", "0", ".", "5">>)>>,
   <<StrV(<<" ", "C", "i", "t", "y", "B", " ">>), StrV(<<"B", " ", "@", " ", "0">>), StrV(<<"A", ":">>)>>}

ListsB ==
  {<< >>,
   <<StrV(<<"C", " ", "@", " ", "0", ".", "4">>)>>,
   <<StrV(<<"A", " ", "@", " ", "1">>), StrV(<<"Z">>)>>,
   <<StrV(<<"[", "[", "C", "i", "t", "y", "B", "]", "]">>)>>}

\* The files of the vault, and the one link name the host resolves: to B in
\* the file A, to C in the file B.
GraphHost ==
  [files |-> {FileA, FileB, FileC},
   links |-> {[name |-> <<"C", "i", "t", "y", "B">>, from |-> FileA, path |-> FileB],
              [name |-> <<"C", "i", "t", "y", "B">>, from |-> FileB, path |-> FileC]}]

\* The entry with the type ty in its frontmatter.
Typed(entry, ty) == [entry EXCEPT !.type = ty]

\* The types of the frontmatter: none, null, the empty string, two of the
\* categories and a word that is no category.
EntryTypes ==
  {UndefV, NullV, StrV(<< >>), StrV(<<"r", "e", "g", "i", "o", "n">>),
   StrV(<<"p", "a", "t", "h", "w", "a", "y">>), StrV(<<"c", "i", "t", "y">>)}

\* The entries after A and B: nothing, C with one of the types, an entry
\* without a file path, an entry whose path is that of no file of the vault,
\* and a second entry of A's file.
Tails ==
  {<< >>, <<Entry(<< >>, << >>)>>, <<Entry(NoFile, << >>)>>, <<Entry(FileA, << >>)>>}
  \cup {<<Typed(Entry(FileC, << >>), ty)>> : ty \in EntryTypes}

\* The entries of a graph: A and B with their lists, then one of the tails.
GraphEntries ==
  {<<Entry(FileA, <<la, << >>>>), Entry(FileB, << << >>, lb>>)>> \o tail :
     la \in ListsA, lb \in ListsB, tail \in Tails}

\* The end-to-end scenario: two nodes, one edge of length 0.5, the documented
\* solver settings and the default canvas.
ScenarioIterations == 400

ScenarioEntries == <<Entry(FileA, << <<StrV(<<"B", " ", "@", " ", "0", ".", "5">>)>> >>), Entry(FileB, << >>)>>

ScenarioOptions ==
  Options(Some(800 * Px), Some(600 * Px), Some(24 * Px), Unset, Some(ScenarioIterations),
          Some(800), Some(8500), UndefV, UndefV)

\* The options that set nothing: every setting is left to the code's default.
NoOptions == Options(Unset, Unset, Unset, Unset, Unset, Unset, Unset, UndefV, UndefV)

\* A rendering: of a graph under one of the profiles, or of the scenario, with
\* its options or without options.
Init ==
  /\ pc = "build"
  /\ host = GraphHost
  /\ \/ /\ entries \in GraphEntries
        /\ \E it \in 0..MaxIter : opt \in Profiles(Some(it))
     \/ /\ entries = ScenarioEntries
        /\ opt \in {ScenarioOptions, NoOptions}
  /\ Idle

Next == Build \/ LayoutBegin \/ EdgeStep \/ RoundEnd \/ LayoutEnd \/ ProjectStep \/ Draw

Spec == Init /\ [][Next]_vars

\* ------------------------------------------------- the solver on its own

Node(id, x, y) == [id |-> id, type |-> Location, x |-> x, y |-> y]

Edge(from, to, len) == [fromId |-> from, toId |-> to, length |-> len]

\* The node lists: unplaced, partly placed, placed, and two nodes at one point.
SolveNodes ==
  {<<Node(FileA, NaN, NaN), Node(FileB, NaN, NaN)>>,
   <<Node(FileA, NaN, NaN), Node(FileB, NaN, NaN), Node(FileC, NaN, NaN)>>,
   <<Node(FileA, 2000, 3000), Node(FileB, NaN, NaN), Node(FileC, 7000, 7000)>>,
   <<Node(FileA, 0, 0), Node(FileB, Scale, Scale)>>,
   <<Node(FileA, 5000, 5000), Node(FileB, 5000, 5000)>>}

\* The lengths of the edges: none, relative ones and absolute ones.
SolveLengths == {NoNum, Some(0), Some(5000), Some(8000), Some(2 * Scale), Some(4 * Scale)}

\* The edge lists: an edge between A and B, then nothing or one more edge,
\* which may end at no node or be a loop.
SolveEdges ==
  {<<Edge(FileA, FileB, l1)>> \o tail :
     l1 \in SolveLengths,
     tail \in {<< >>} \cup {<<Edge(FileB, to, l2)>> :
                              to \in {FileA, FileB, FileC, NoFile}, l2 \in SolveLengths}}
  \cup {<<Edge(FileA, NoFile, l1), Edge(FileB, FileA, l2)>> :
          l1 \in SolveLengths, l2 \in SolveLengths}

\* A call of layoutNodesByDistances on node and edge lists of its own, then
\* the projection and the drawing.
InitSolve ==
  /\ pc = "layout"
  /\ host = IdleHost
  /\ entries = << >>
  /\ nodes \in SolveNodes
  /\ edges \in SolveEdges
  /\ call = [nodes |-> nodes, edges |-> edges]
  /\ \E it \in 0..MaxIter : opt \in Profiles(Some(it))
  /\ arg = UndefV
  /\ ret = NoNum
  /\ iter = 0
  /\ ei = 1
  /\ lines = << >>
  /\ IdleUI

NextSolve == LayoutBegin \/ EdgeStep \/ RoundEnd \/ LayoutEnd \/ ProjectStep \/ Draw

SpecSolve == InitSolve /\ [][NextSolve]_vars

\* --------------------------------------------------------------- properties

\* The edge the inner loop is at, and the places of its endpoints.
AtEdge == pc = "iterate" /\ iter < IterationsOf(opt) /\ ei <= Len(edges)

EdgeFrom == FindNode(nodes, edges[ei].fromId)

EdgeTo == FindNode(nodes, edges[ei].toId)

Stiffness == OrDefault(opt.stiffness, DefaultStiffness)

Damping == OrDefault(opt.damping, DefaultDamping)

InUnit(v) == 0 <= v /\ v <= Scale

\* The inner loop is at an edge with both endpoints among the nodes, at
\* distinct positions, stiffness and damping are in (0,1] and the move takes
\* no coordinate out of [0,1].
UnclampedUpdate ==
  /\ AtEdge
  /\ EdgeFrom # 0 /\ EdgeTo # 0 /\ EdgeFrom # EdgeTo
  /\ Dist(nodes, EdgeFrom, EdgeTo) > 0
  /\ 0 < Stiffness /\ Stiffness <= Scale
  /\ 0 < Damping /\ Damping <= Scale
  /\ \A c \in 1..4 :
       InUnit(Moved(nodes, EdgeFrom, EdgeTo, TargetLength(edges[ei], opt), opt)[c])

\* |d - L| for the endpoints at a and b of the edge e.
LengthError(ns, a, b, e) == Abs(Dist(ns, a, b) - TargetLength(e, opt))

\* C1: an unclamped edge update does not enlarge the distance error |d - L| of
\* its edge by more than the grid's rounding (3 units of the grid), and makes it smaller when it is a
\* tenth or more.
C1_UpdateReducesError ==
  [][UnclampedUpdate =>
       LET a == EdgeFrom
           b == EdgeTo
           e == edges[ei]
       IN /\ LengthError(nodes', a, b, e) <= LengthError(nodes, a, b, e) + 3
          /\ LengthError(nodes, a, b, e) >= Scale \div 10
               => LengthError(nodes', a, b, e) < LengthError(nodes, a, b, e)]_vars

\* The distance between the first two nodes, in tenths of a pixel, once the
\* nodes are projected.
PixelDistance10 ==
  LET dx == RoundDiv(nodes[1].x - nodes[2].x, (Px * Scale) \div 10)
      dy == RoundDiv(nodes[1].y - nodes[2].y, (Px * Scale) \div 10)
  IN Sqrt(dx * dx + dy * dy)

\* 0.5 x min(800-48, 600-48) = 276 pixels, in tenths of a pixel.
ScenarioTarget10 == 5 * Min(800 - 48, 600 - 48)

\* C2: at the end of the end-to-end scenario the two projected points are
\* within 5% of 276 pixels of each other.
C2_ScenarioConverges ==
  (pc = "done" /\ entries = ScenarioEntries /\ opt = ScenarioOptions)
    => 100 * Abs(PixelDistance10 - ScenarioTarget10) <= 5 * ScenarioTarget10

\* C3: when the solver has returned, whatever the nodes (unplaced, or placed
\* in the unit square), the edges and the options it was called with, every
\* node is in the unit square.
C3_ClampInvariant ==
  pc = "project" => \A i \in 1..Len(nodes) : InUnit(nodes[i].x) /\ InUnit(nodes[i].y)

\* Whether some edge with both endpoints among the nodes ends at node i.
Touched(i) ==
  \E k \in 1..Len(edges) :
    /\ FindNode(nodes, edges[k].fromId) # 0
    /\ FindNode(nodes, edges[k].toId) # 0
    /\ i \in {FindNode(nodes, edges[k].fromId), FindNode(nodes, edges[k].toId)}

\* The solver has returned after a round or more, with a node that started
\* unplaced on the border of the square and a node no edge touches.
C3_Witness ==
  /\ pc = "project"
  /\ IterationsOf(opt) > 0
  /\ \E i \in 1..Len(nodes) :
       ~Placed(call.nodes[i]) /\ (nodes[i].x \in {0, Scale} \/ nodes[i].y \in {0, Scale})
  /\ \E i \in 1..Len(nodes) : ~Touched(i)

\* The places in the edge list the solver received of the edges whose toId is
\* no node.
Dangling == {k \in 1..Len(call.edges) : FindNode(call.nodes, call.edges[k].toId) = 0}

\* The list es without its k-th element.
Without(es, k) == SubSeq(es, 1, k - 1) \o SubSeq(es, k + 1, Len(es))

OptWidth == OrDefault(opt.width, DefaultWidth * Px)

OptHeight == OrDefault(opt.height, DefaultHeight * Px)

OptPadding == OrDefault(opt.padding, DefaultPadding * Px)

\* Every node is within the padding of the canvas.
WithinPadding ==
  \A i \in 1..Len(nodes) :
    /\ OptPadding * Scale <= nodes[i].x
    /\ nodes[i].x <= (OptWidth - OptPadding) * Scale
    /\ OptPadding * Scale <= nodes[i].y
    /\ nodes[i].y <= (OptHeight - OptPadding) * Scale

\* C5 as stated: on a canvas wider and higher than twice the padding, every
\* projected node is within the padding of the canvas.
C5_ProjectionBoundsAnyCanvas ==
  (pc \in {"draw", "done"} /\ OptWidth > 2 * OptPadding /\ OptHeight > 2 * OptPadding)
    => WithinPadding

\* C5: on a canvas that is a pixel or more wider and higher than twice the
\* padding, every projected node is within the padding of the canvas.
C5_ProjectionBounds ==
  (pc \in {"draw", "done"} /\ OptWidth - 2 * OptPadding >= 1 * Px
     /\ OptHeight - 2 * OptPadding >= 1 * Px)
    => WithinPadding

\* The nodes are projected on such a canvas, one onto its right edge and one
\* onto its left edge.
C5_Witness ==
  /\ pc = "draw"
  /\ OptWidth - 2 * OptPadding >= 1 * Px /\ OptHeight - 2 * OptPadding >= 1 * Px
  /\ \E i \in 1..Len(nodes) : nodes[i].x = (OptWidth - OptPadding) * Scale
  /\ \E i \in 1..Len(nodes) : nodes[i].x = OptPadding * Scale

\* ----------------------------------------------- properties of the normalizer

\* Whether a value is numeric: a number, or a string that is a numeral.
Numeric(v) ==
  \/ v.t = "num"
  \/ v.t = "str" /\ Trim(v.s) # << >> /\ StringToNumber(v.s) # NaN

\* The stated policy of the length normalizer: [0,1] unchanged, (1,100]
\* divided by 100, everything else rejected.
Policy(v) ==
  LET n == ToNumber(v)
  IN IF ~Numeric(v) \/ ~IsFinite(n) THEN NoNum
     ELSE IF 0 <= n /\ n <= Scale THEN Some(n)
     ELSE IF Scale < n /\ n <= 100 * Scale THEN Some(RoundDiv(n, 100))
     ELSE NoNum

\* C6: toRel returns what the stated policy gives for its argument; in
\* particular it rejects the empty string, booleans, null, arrays and
\* non-numeric text.
C6_NormalizerPolicy == pc = "done" => ret = Policy(arg)

\* C7 as stated: toRel(1.0001) is null.
C7_JustAboveOneRejected == (pc = "done" /\ ToNumber(arg) = Scale + 1) => ret = NoNum

\* C7: toRel(1.0001) is 1.0001 / 100, the percentage rule applying from just
\* above 1.
C7_JustAboveOneIsPercent ==
  (pc = "done" /\ ToNumber(arg) = Scale + 1) => ret = Some(RoundDiv(Scale + 1, 100))

\* toRel has returned from the number 1.0001.
C7_Witness == pc = "done" /\ arg = NumV(Scale + 1) /\ ret.def

\* --------------------------------------------------- properties of the parser

\* The one item of the one distance list of a build of SpecParse.
ParsedItem == entries[1].lists[1][1]

\* C8 as stated: every string of a phrase T, a separator, a numeral N and an
\* optional ')' gives one edge, to T trimmed and of length toRel(N).
C8_DelimitedFormAnyPhrase ==
  pc = "layout" =>
    \A T \in Phrases, w1 \in Spaces, sep \in SepChars, w2 \in Spaces, N \in Numerals,
       cl \in Closers :
      ParsedItem = StrV(Delimited(T, w1, sep, w2, N, cl))
        => edges = <<Edge(FileA, Trim(T), toRel(StrV(N)))>>

\* C8: every string of a phrase T without line terminator, a separator, a
\* numeral N (digits, with an optional fraction of digits) and an optional ')'
\* gives one edge, to T trimmed and of length toRel(N); T may hold separator
\* characters and numerals itself.
C8_DelimitedForm ==
  pc = "layout" =>
    \A T \in Phrases, w1 \in Spaces, sep \in SepChars, w2 \in Spaces, N \in Numerals,
       cl \in Closers :
      (ParsedItem = StrV(Delimited(T, w1, sep, w2, N, cl)) /\ NoLineTerminator(T, 1, Len(T)))
        => edges = <<Edge(FileA, Trim(T), toRel(StrV(N)))>>

\* The build of "A:5 @ 40" has given the edge to "A:5" of length 0.4.
C8_Witness ==
  /\ pc = "layout"
  /\ ParsedItem = StrV(Delimited(<<"A", ":", "5">>, <<" ">>, "@", <<" ">>, <<"4", "0">>, << >>))
  /\ edges = <<Edge(FileA, <<"A", ":", "5">>, Some(4 * (Scale \div 10)))>>

\* The length the bracketed form is stated to give for the text H after the
\* link path: none without '#'; otherwise what the stated policy gives for the
\* fragment, the text between the first '#' and the next.
FragmentLength(H) ==
  IF H = << >> THEN NoNum
  ELSE LET F == Tail(H)
       IN Policy(StrV(Slice(F, 1, IndexOf(F, "#", 1) - 1)))

\* C9: the string [[T H]] with a link path T, whitespace allowed around it,
\* gives one edge, to T trimmed, of the length of a numeric and accepted
\* fragment and of no length otherwise.
C9_BracketedForm ==
  pc = "layout" =>
    \A l \in Spaces, T \in LinkPaths, H \in HashParts, r \in Spaces :
      (ParsedItem = StrV(Bracketed(l, T, H, r)) /\ Len(T) > 0)
        => edges = <<Edge(FileA, Trim(T), FragmentLength(H))>>

\* ------------------------------------------- properties of the target length

\* The items of the j-th entry that the builder reads.
ItemsOf(j) == IF HasFile(host.files, entries[j]) THEN Flatten(entries[j].lists) ELSE << >>

RECURSIVE ItemsBefore(_)
\* The number of the items of the entries before the j-th.
ItemsBefore(j) == IF j <= 1 THEN 0 ELSE ItemsBefore(j - 1) + Len(ItemsOf(j - 1))

\* Whether a string is bare: not of the bracketed form and without a
\* separator-number suffix.
Bare(s) == ~WikiMatch(s).ok /\ ~SuffixMatch(s).ok

\* The target length the solver is stated to use at the edge it is at.
OwnLengthElseDefault ==
  IF edges[ei].length.def THEN edges[ei].length.v
  ELSE OrDefault(opt.defaultEdgeLengthRel, DefaultEdgeLengthRel)

\* The edges of the bare items: every item of the graphs being a string, the
\* k-th item of the j-th entry gives the edge at ItemsBefore(j) + k.
BareItemEdges ==
  pc # "build" =>
    \A j \in 1..Len(entries) : \A k \in 1..Len(ItemsOf(j)) :
      Bare(ItemsOf(j)[k].s)
        => call.edges[ItemsBefore(j) + k]
             = Edge(entries[j].path,
                    IF ResolveLinksOf(opt)
                    THEN ResolveLink(host.links, Trim(ItemsOf(j)[k].s), entries[j].path)
                    ELSE Trim(ItemsOf(j)[k].s),
                    NoNum)

\* C10: a bare string item gives an edge to the whole trimmed string (as the
\* host resolves it, when links are resolved) without length, and every step of the solver uses as
\* target length the edge's own length when it has one, 0 included, and the
\* configured defaultEdgeLengthRel when it has none.
C10_TargetLengthSelection ==
  /\ []BareItemEdges
  /\ [][AtEdge => nodes' = EdgeUpdateWith(nodes, edges[ei], OwnLengthElseDefault, opt)]_vars

\* The solver is at an edge of length 0 between two nodes apart from each
\* other, after the edge of a bare item, which has no length.
C10_Witness ==
  /\ AtEdge
  /\ ei > 1
  /\ edges[ei].length = Some(0)
  /\ EdgeFrom # 0 /\ EdgeTo # 0
  /\ Dist(nodes, EdgeFrom, EdgeTo) > 0
  /\ Bare(ItemsOf(1)[ei - 1].s)
  /\ ~edges[ei - 1].length.def

\* ------------------------------------------------ properties of the builder

\* Whether a raw length is numeric and the stated policy rejects it.
Rejected(v) == Numeric(v) /\ IsFinite(ToNumber(v)) /\ Policy(v) = NoNum

\* C11: an item whose numeric length the normalizer rejects (a delimited
\* string, a bracketed string with such a fragment, an object with a string
\* target and such a distance) still gives exactly one edge, to the parsed
\* target and without length.
C11_RejectedLengthKeepsEdge ==
  pc = "layout" =>
    /\ \A T \in Phrases, w1 \in Spaces, sep \in SepChars, w2 \in Spaces, N \in Numerals,
          cl \in Closers :
         (/\ ParsedItem = StrV(Delimited(T, w1, sep, w2, N, cl))
          /\ NoLineTerminator(T, 1, Len(T))
          /\ Rejected(StrV(N)))
           => edges = <<Edge(FileA, Trim(T), NoNum)>>
    /\ \A l \in Spaces, T \in LinkPaths, F \in Fragments, r \in Spaces :
         (/\ ParsedItem = StrV(Bracketed(l, T, <<"#">> \o F, r))
          /\ Len(T) > 0
          /\ Rejected(StrV(F)))
           => edges = <<Edge(FileA, Trim(T), NoNum)>>
    /\ (/\ ParsedItem.t = "obj"
        /\ ParsedItem.target.t = "str" /\ Len(ParsedItem.target.s) > 0
        /\ Rejected(Coalesce(ParsedItem.distance, ParsedItem.length)))
         => edges = <<Edge(FileA, ParsedItem.target.s, NoNum)>>

\* The build of "CityA @ 150" has given the edge to "CityA" without length.
C11_Witness ==
  /\ pc = "layout"
  /\ ParsedItem = StrV(Delimited(<<"C", "i", "t", "y", "A">>, <<" ">>, "@", <<" ">>,
                                 <<"1", "5", "0">>, << >>))
  /\ edges = <<Edge(FileA, <<"C", "i", "t", "y", "A">>, NoNum)>>

\* Whether a field of an object item is a non-empty string.
NamedBy(v) == v.t = "str" /\ Len(v.s) > 0

\* Whether no target can be obtained from an item: it is neither a string nor
\* an object, or an object without a non-empty string among target, path and
\* id, or a string whose target part is empty or whitespace (bare, before the
\* separator of the delimited form, or before the '#' of the bracketed form).
NoTarget(p) ==
  \/ p.t \notin {"str", "obj"}
  \/ p.t = "obj" /\ ~NamedBy(p.target) /\ ~NamedBy(p.path) /\ ~NamedBy(p.id)
  \/ p.t = "str" /\ Trim(p.s) = << >>
  \/ \E T \in Phrases, w1 \in Spaces, sep \in SepChars, w2 \in Spaces, N \in Numerals,
        cl \in Closers :
       p = StrV(Delimited(T, w1, sep, w2, N, cl)) /\ Trim(T) = << >>
  \/ \E l \in Spaces, T \in LinkPaths, H \in HashParts, r \in Spaces :
       p = StrV(Bracketed(l, T, H, r)) /\ Trim(T) = << >> /\ Len(T \o H) > 0

\* C12: an item from which no target can be obtained gives no edge.
C12_NoTargetNoEdge == (pc = "layout" /\ NoTarget(ParsedItem)) => edges = << >>

\* A field is present when it is neither undefined nor null.
Present(v) == v.t \notin {"undef", "null"}

\* The first present of the fields vs, or undefined.
FirstPresent(vs) ==
  LET is == {i \in 1..Len(vs) : Present(vs[i])}
  IN IF is = {} THEN UndefV ELSE vs[CHOOSE i \in is : \A k \in is : i <= k]

\* C13 as stated: the edge of an object item goes to the first present of
\* target, path, id, and its length is the normalized first present of
\* distance, length.
C13_FirstPresentFields ==
  (pc = "layout" /\ ParsedItem.t = "obj") =>
    \A k \in 1..Len(edges) :
      /\ edges[k].toId = FirstPresent(<<ParsedItem.target, ParsedItem.path, ParsedItem.id>>).s
      /\ Present(FirstPresent(<<ParsedItem.distance, ParsedItem.length>>))
           => edges[k].length = toRel(FirstPresent(<<ParsedItem.distance, ParsedItem.length>>))

\* The target of an object item: the first truthy of target, path, id, and id
\* when none is.
TruthyTarget(p) ==
  IF Truthy(p.target) THEN p.target ELSE IF Truthy(p.path) THEN p.path ELSE p.id

\* The raw distance of an object item: distance unless it is null or
\* undefined, and length then.
PresentDistance(p) == IF Present(p.distance) THEN p.distance ELSE p.length

\* C13: the target of an object item is the first truthy of target, path, id
\* (an empty string gives way to the next field), its raw distance the first
\* of distance, length that is neither null nor undefined; the item gives one
\* edge, to the target with the normalized distance, when the target is a
\* string, and no edge otherwise.
C13_FirstTruthyFields ==
  (pc = "layout" /\ ParsedItem.t = "obj") =>
    edges = IF TruthyTarget(ParsedItem).t = "str"
            THEN <<Edge(FileA, TruthyTarget(ParsedItem).s, toRel(PresentDistance(ParsedItem)))>>
            ELSE << >>

\* The build of { target: "", path: "C", id: "D", distance: null, length: 40 }
\* has given the edge to "C" of length 0.4.
C13_Witness ==
  /\ pc = "layout"
  /\ ParsedItem = ObjV(StrV(<< >>), StrV(<<"C">>), StrV(<<"D">>), NullV, NumV(40 * Scale))
  /\ edges = <<Edge(FileA, <<"C">>, Some(4 * (Scale \div 10)))>>

\* ------------------------------------------------- properties of the solver

\* The solver has passed its rescale: call.edges are the edges it was called
\* with, edges the ones it works on.
Rescaled == pc \in {"iterate", "project", "draw", "done"} /\ call.nodes # << >>

\* The lengths of the edges the solver was called with.
GivenLengths == {call.edges[k].length.v : k \in {i \in 1..Len(call.edges) : call.edges[i].length.def}}

\* Whether the batch rescale applies: the option is on and some given length
\* is above 1.
RescaleApplies == Truthy(opt.normalizeAbsoluteLengths) /\ \E l \in GivenLengths : l > Scale

\* C14: when the batch rescale applies, every edge keeps its endpoints, every
\* given length is divided by the largest given length, which leaves every
\* length in [0,1] and the largest at exactly 1, and an edge without length
\* stays without; when it does not apply, the edges are unchanged.
C14_BatchRescale ==
  Rescaled =>
    IF RescaleApplies
    THEN /\ Len(edges) = Len(call.edges)
         /\ \A k \in 1..Len(edges) :
              /\ edges[k].fromId = call.edges[k].fromId
              /\ edges[k].toId = call.edges[k].toId
              /\ edges[k].length.def = call.edges[k].length.def
              /\ edges[k].length.def =>
                   /\ InUnit(edges[k].length.v)
                   /\ \A m \in GivenLengths :
                        (\A l \in GivenLengths : l <= m)
                          => edges[k].length.v = Div(call.edges[k].length.v, m)
         /\ \E k \in 1..Len(edges) : edges[k].length = Some(Scale)
    ELSE edges = call.edges

\* The rescale has divided the lengths 2 and 4 to 0.5 and 1.
C14_Witness ==
  /\ Rescaled
  /\ RescaleApplies
  /\ Len(edges) = 2
  /\ call.edges[1].length = Some(2 * Scale) /\ edges[1].length = Some(Scale \div 2)
  /\ call.edges[2].length = Some(4 * Scale) /\ edges[2].length = Some(Scale)

\* The documented defaults of the solver's settings (DEFAULT_SETTINGS).
DocumentedEdgeLengthRel == 5000

DocumentedIterations == 400

DocumentedStiffness == 800

DocumentedDamping == 8500

\* The options o with every solver setting it omits at its documented default.
Documented(o) ==
  [o EXCEPT !.defaultEdgeLengthRel = IF @.def THEN @ ELSE Some(DocumentedEdgeLengthRel),
            !.iterations = IF @.def THEN @ ELSE Some(DocumentedIterations),
            !.stiffness = IF @.def THEN @ ELSE Some(DocumentedStiffness),
            !.damping = IF @.def THEN @ ELSE Some(DocumentedDamping),
            !.normalizeAbsoluteLengths = IF @.t = "undef" THEN BoolV(TRUE) ELSE @]

\* C15: the solver behaves under its options as under the options with every
\* omitted setting at its documented default: it rescales the same, every edge
\* update moves the nodes the same, and it returns after the same number of
\* rounds.
C15_DocumentedDefaults ==
  /\ [](Rescaled => edges = Rescale(call.edges, Documented(opt)))
  /\ [][AtEdge => nodes' = EdgeUpdate(nodes, edges[ei], Documented(opt))]_vars
  /\ []((pc = "project" /\ call.nodes # << >>) => iter = IterationsOf(Documented(opt)))

\* ------------------------------------------------------- the solver's loops

\* The edge at k of the list has no error: it is skipped for lack of an
\* endpoint, or its endpoints are at its target length from each other.
ZeroError(k) ==
  LET a == FindNode(nodes, edges[k].fromId)
      b == FindNode(nodes, edges[k].toId)
  IN a = 0 \/ b = 0 \/ LengthError(nodes, a, b, edges[k]) = 0

\* The visits the solver has left to make when it is in its loops: the rest of
\* this round, counting its end, and the rounds after it.
Remaining == (IterationsOf(opt) - iter) * (Len(edges) + 1) + (Len(edges) + 1 - ei)

\* C16: the solver terminates (every step in its loops but the return lowers
\* the count of the visits left, which is never negative, and the loop's place
\* stays within the list or one past it), and it returns only after exactly
\* `iterations` rounds; a
\* round visits the edges one by one in the order of the list, each visit
\* being the update of the edge at the loop's place, and ends only after the
\* last edge; zero error of every edge ends nothing.
C16_CountedRounds ==
  /\ [](pc = "iterate" => (Remaining >= 0 /\ 1 <= ei /\ ei <= Len(edges) + 1))
  /\ [][(pc = "iterate" /\ pc' = "iterate") => Remaining' < Remaining]_vars
  /\ [][(pc = "iterate" /\ pc' # "iterate")
          => (pc' = "project" /\ iter = IterationsOf(opt) /\ ei = 1)]_vars
  /\ [][(pc = "iterate" /\ iter' # iter)
          => (iter' = iter + 1 /\ ei = Len(edges) + 1 /\ ei' = 1 /\ nodes' = nodes)]_vars
  /\ [][(pc = "iterate" /\ ei' # ei /\ iter' = iter)
          => (ei' = ei + 1 /\ ei <= Len(edges)
              /\ nodes' = EdgeUpdate(nodes, edges[ei], opt))]_vars
  /\ [][(pc = "iterate" /\ nodes' # nodes) => ei' = ei + 1]_vars

\* C16 (witness): a round begins although every edge of a list that is not
\* empty has zero error, and rounds are left to run.
C16_Witness ==
  /\ pc = "iterate"
  /\ 0 < iter /\ iter < IterationsOf(opt)
  /\ ei = 1
  /\ edges # << >>
  /\ \A k \in 1..Len(edges) : ZeroError(k)
  /\ \E k \in 1..Len(edges) :
       FindNode(nodes, edges[k].fromId) # 0 /\ FindNode(nodes, edges[k].toId) # 0

\* ------------------------------------------------------------ edge direction

\* The edge e the other way round: from its target to its source.
Reverse(e) == [e EXCEPT !.fromId = e.toId, !.toId = e.fromId]

\* The segments of the lines ls: each the set of its two end points.
Segments(ls) == {{<<ls[i].x1, ls[i].y1>>, <<ls[i].x2, ls[i].y2>>} : i \in 1..Len(ls)}

\* C17: in every state of the solver's loops, the update of any edge of the
\* list leaves every node where the update of the reversed edge leaves it; and
\* every edge is drawn as the segment its reversed edge is drawn as.
C17_DirectionIrrelevant ==
  /\ pc = "iterate"
       => \A k \in 1..Len(edges) :
            EdgeUpdate(nodes, edges[k], opt) = EdgeUpdate(nodes, Reverse(edges[k]), opt)
  /\ pc = "done"
       => \A k \in 1..Len(edges) :
            Segments(DrawEdge(nodes, edges[k])) = Segments(DrawEdge(nodes, Reverse(edges[k])))

\* C17 (witness): the loop is at an edge between two nodes, and the update of
\* the edge moves both.
C17_Witness ==
  /\ AtEdge
  /\ EdgeFrom # 0 /\ EdgeTo # 0 /\ EdgeFrom # EdgeTo
  /\ EdgeUpdate(nodes, edges[ei], opt)[EdgeFrom] # nodes[EdgeFrom]
  /\ EdgeUpdate(nodes, edges[ei], opt)[EdgeTo] # nodes[EdgeTo]

\* ------------------------------------------------------ the builder's nodes

\* The ids of the nodes ns, in order.
Ids(ns) == [i \in 1..Len(ns) |-> ns[i].id]

\* The file paths of the entries ents, in order.
Paths(ents) == [i \in 1..Len(ents) |-> ents[i].path]

HasPath(entry) == Len(entry.path) > 0

\* Whether the vault holds a file at the entry's path.
InVault(entry) == HasPath(entry) /\ entry.path \in host.files

C19_UniqueNodeIds ==
  pc # "build"
    => /\ \A i, j \in 1..Len(nodes) : nodes[i].id = nodes[j].id => i = j
       /\ \A k \in 1..Len(edges) :
            /\ FindNode(nodes, edges[k].fromId) = GetNode(nodes, edges[k].fromId)
            /\ FindNode(nodes, edges[k].toId) = GetNode(nodes, edges[k].toId)

\* The categories of MapEntityType.
Categories ==
  {<<"w", "o", "r", "l", "d">>,
   <<"c", "o", "n", "t", "i", "n", "e", "n", "t">>,
   <<"r", "e", "g", "i", "o", "n">>,
   <<"t", "e", "r", "r", "i", "t", "o", "r", "y">>,
   Location,
   <<"p", "a", "t", "h", "w", "a", "y">>}

\* The entries that gave the builder's nodes, in order.
Built == SelectSeq(entries, InVault)

\* C20: the type of every node the builder gives is one of the categories, and
\* it is 'location' when the entry's frontmatter has no type.
C20_CategoryOfEveryNode ==
  pc # "build"
    => \A i \in 1..Len(call.nodes) :
         /\ call.nodes[i].type \in Categories
         /\ Built[i].type.t \in {"undef", "null"} => call.nodes[i].type = Location

\* -------------------------------------------------------- target resolution

\* The raw target of the k-th item of the j-th entry: the target its parse gives.
RawTarget(j, k) == ParseItem(ItemsOf(j)[k]).target.s

\* The files the host resolves the name to, for a link in the file from.
Resolutions(name, from) == {l.path : l \in {m \in host.links : m.name = name /\ m.from = from}}

\* C21: every item of the graphs being a string, the k-th item of the j-th
\* entry gives the edge at ItemsBefore(j) + k; with resolveLinks enabled (true
\* or left out) the edge's toId is the file the host resolves the raw target to
\* for a link in the entry's file, and the raw target when the host resolves
\* it to none; with resolveLinks disabled it is the raw target.
C21_TargetResolution ==
  pc # "build" =>
    \A j \in 1..Len(entries) : \A k \in 1..Len(ItemsOf(j)) :
      LET toId == call.edges[ItemsBefore(j) + k].toId
          to == Resolutions(RawTarget(j, k), entries[j].path)
      IN IF ResolveLinksOf(opt) /\ to # {} THEN to = {toId} ELSE toId = RawTarget(j, k)

\* C21 (witness): with resolveLinks enabled, a build gave for the item
\* "[[CityB]]" of the file B an edge to C, the file the host resolves CityB to
\* in B, and not to B, the file it resolves CityB to in A.
C21_Witness ==
  /\ pc = "layout"
  /\ ResolveLinksOf(opt)
  /\ Len(ItemsOf(2)) = 1
  /\ RawTarget(2, 1) = <<"C", "i", "t", "y", "B">>
  /\ call.edges[ItemsBefore(2) + 1] = Edge(FileB, FileC, NoNum)

\* ------------------------------------------------------------ zero-edge node

\* C22: in the solver's loops, after any number of edge updates, and when the
\* solver has returned, a node that no edge with both endpoints among the
\* nodes ends at is where the initialization left it.
C22_ZeroEdgeNodeStays ==
  pc \in {"iterate", "project"}
    => \A i \in 1..Len(nodes) : ~Touched(i) => nodes[i] = InitPlace(call.nodes)[i]

\* C22 (witness): after a round or more the edge updates have moved a node,
\* and a node that started unplaced and that no edge ends at is on the circle.
C22_Witness ==
  /\ pc = "iterate"
  /\ iter > 0
  /\ nodes # InitPlace(call.nodes)
  /\ \E i \in 1..Len(nodes) :
       ~Touched(i) /\ ~Placed(call.nodes[i]) /\ nodes[i] = InitPlace(call.nodes)[i]

\* -------------------------------------------------------------- determinism

RECURSIVE RoundTo(_, _, _, _)
\* The nodes after the updates of the first k edges of a round.
RoundTo(ns, es, k, o) ==
  IF k <= 0 THEN ns ELSE EdgeUpdate(RoundTo(ns, es, k - 1, o), es[k], o)

\* The nodes after r rounds and the updates of the first k edges of the next,
\* as a function of the nodes, the edges and the options of the call.
Trajectory(r, k) ==
  LET es == Rescale(call.edges, opt)
  IN RoundTo(Rounds(InitPlace(call.nodes), es, r, opt), es, k, opt)

\* C23: the nodes after every edge update, the nodes the solver returns and
\* the nodes after the projection are functions of the node list, the edge
\* list and the options of the call: two runs on equal ones are equal
\* throughout.
C23_Determinism ==
  /\ pc = "iterate" => (edges = Rescale(call.edges, opt) /\ nodes = Trajectory(iter, ei - 1))
  /\ pc = "project" => nodes = Layout(call.nodes, call.edges, opt)
  /\ pc \in {"draw", "done"} => nodes = Project(Layout(call.nodes, call.edges, opt), opt)

\* C23 (witness): a run of a round or more is over, and the solver has moved
\* a node from where the initialization put it.
C23_Witness ==
  /\ pc = "done"
  /\ iter > 0
  /\ nodes # Project(InitPlace(call.nodes), opt)

\* ================================================================ Input view

\* ------------------------------------------------------------- property ids

\* String.prototype.startsWith
StartsWith(s, p) == Len(s) >= Len(p) /\ SubSeq(s, 1, Len(p)) = p

RECURSIVE LastIndexOf(_, _, _)
\* The last position at or before j that holds the character c (0 when none).
LastIndexOf(s, c, j) == IF j < 1 \/ s[j] = c THEN j ELSE LastIndexOf(s, c, j - 1)

NotePrefix == <<"n", "o", "t", "e", ".">>

FilePrefix == <<"f", "i", "l", "e", ".">>

FormulaPrefix == <<"f", "o", "r", "m", "u", "l", "a", ".">>

\* isComputedProperty of the view of main.ts
isComputedProperty(propertyId) ==
  StartsWith(propertyId, FilePrefix) \/ StartsWith(propertyId, FormulaPrefix)

\* toPropKey of the view of main.ts: null, or the frontmatter key.
toPropKey(propertyId) ==
  IF propertyId = << >> \/ isComputedProperty(propertyId) THEN NullV
  ELSE IF StartsWith(propertyId, NotePrefix)
       THEN StrV(Slice(propertyId, Len(NotePrefix) + 1, Len(propertyId)))
       ELSE StrV(Slice(propertyId, LastIndexOf(propertyId, ":", Len(propertyId)) + 1,
                       Len(propertyId)))

\* isComputed of the view of part_000: its formula prefix ends in a colon.
isComputed(pid) ==
  StartsWith(pid, FilePrefix) \/ StartsWith(pid, <<"f", "o", "r", "m", "u", "l", "a", ":">>)

\* toPropKey of the view of part_000: null, or parts[1] of the split at the
\* colons when there is more than one part, and the id itself otherwise.
toPropKeyPart000(pid) ==
  IF pid = << >> \/ isComputed(pid) THEN NullV
  ELSE LET i == IndexOf(pid, ":", 1)
       IN IF i > Len(pid) THEN StrV(pid)
          ELSE StrV(Slice(pid, i + 1, IndexOf(pid, ":", i + 1) - 1))

\* ------------------------------------------------------------ frontmatter

\* A frontmatter object or a group object is the sequence of its keys with
\* their values, in the order of Object.keys.  An array value is ListV of its
\* items, which are strings; a nested object is GroupV of its fields.
ListV(items) == [t |-> "list", n |-> 0, s |-> items]

GroupV(fields) == [t |-> "group", n |-> 0, s |-> fields]

\* The place of the key k in the object obj, 0 when it has none.
KeyIndex(obj, k) ==
  LET is == {i \in 1..Len(obj) : obj[i].key = k}
  IN IF is = {} THEN 0 ELSE CHOOSE i \in is : TRUE

\* obj[k]
Get(obj, k) == IF KeyIndex(obj, k) = 0 THEN UndefV ELSE obj[KeyIndex(obj, k)].value

\* obj[k] = v
Set(obj, k, v) ==
  IF KeyIndex(obj, k) = 0 THEN Append(obj, [key |-> k, value |-> v])
  ELSE [obj EXCEPT ![KeyIndex(obj, k)].value = v]

\* app.vault.getAbstractFileByPath(path) gives a file.
IsFile(path) == Len(path) > 0 /\ path \in DOMAIN vault

\* ------------------------------------------------------------ conversions

RECURSIVE Join(_)
\* Array.prototype.join(', ')
Join(items) ==
  IF items = << >> THEN << >>
  ELSE IF Len(items) = 1 THEN items[1]
  ELSE items[1] \o <<",", " ">> \o Join(Tail(items))

RECURSIVE SplitTrim(_)
\* v.split(',').map(s => s.trim()).filter(Boolean)
SplitTrim(v) ==
  LET i == IndexOf(v, ",", 1)
      part == Trim(Slice(v, 1, i - 1))
      rest == IF i > Len(v) THEN << >> ELSE SplitTrim(Slice(v, i + 1, Len(v)))
  IN IF part = << >> THEN rest ELSE <<part>> \o rest

RECURSIVE Digits(_)
\* The decimal digits of the whole number k.
Digits(k) ==
  LET d == <<"0", "1", "2", "3", "4", "5", "6", "7", "8", "9">>[(k % 10) + 1]
  IN IF k < 10 THEN <<d>> ELSE Digits(k \div 10) \o <<d>>

\* String(value), for the values of the notes: strings, booleans, whole
\* numbers from 0 and nested objects.
String(v) ==
  CASE v.t = "str" -> v.s
    [] v.t = "bool" -> IF v.n = 1 THEN <<"t", "r", "u", "e">> ELSE <<"f", "a", "l", "s", "e">>
    [] v.t = "num" -> Digits(v.n \div Scale)
    [] v.t = "null" -> <<"n", "u", "l", "l">>
    [] v.t = "undef" -> <<"u", "n", "d", "e", "f", "i", "n", "e", "d">>
    [] v.t = "list" -> Join(v.s)
    [] OTHER -> <<"[", "o", "b", "j", "e", "c", "t", " ", "O", "b", "j", "e", "c", "t", "]">>

\* parseFloat of the value of an input of type number, which the browser keeps
\* a valid floating-point number or empty: NaN for the empty value.
ParseFloat(s) == IF s = << >> THEN NaN ELSE StringToNumber(s)

\* /^(\d{4}-\d{2}-\d{2})(T.*)?$/.test(s)
isDateString(s) ==
  /\ Len(s) >= 10
  /\ \A i \in {1, 2, 3, 4, 6, 7, 9, 10} : s[i] \in DigitChars
  /\ s[5] = "-" /\ s[8] = "-"
  /\ Len(s) > 10 => (s[11] = "T" /\ NoLineTerminator(s, 12, Len(s)))

\* detectType
detectType(v) ==
  IF v.t = "bool" THEN "checkbox"
  ELSE IF v.t = "num" THEN "number"
  ELSE IF v.t = "str" /\ isDateString(v.s) THEN "date"
  ELSE "text"

UpperChars ==
  <<"A", "B", "C", "D", "E", "F", "G", "H", "I", "J", "K", "L", "M",
    "N", "O", "P", "Q", "R", "S", "T", "U", "V", "W", "X", "Y", "Z">>

LowerChars ==
  <<"a", "b", "c", "d", "e", "f", "g", "h", "i", "j", "k", "l", "m",
    "n", "o", "p", "q", "r", "s", "t", "u", "v", "w", "x", "y", "z">>

\* String.prototype.toLowerCase, for the letters A to Z.
ToLowerCase(s) ==
  [i \in 1..Len(s) |->
     IF \E k \in 1..26 : UpperChars[k] = s[i]
     THEN LowerChars[CHOOSE k \in 1..26 : UpperChars[k] = s[i]]
     ELSE s[i]]

\* ------------------------------------------------------- the view of main.ts

\* A virtual entry: the path of its file and its group key, null for a
\* regular entry.
VirtualEntry(path, groupKey) == [path |-> path, groupKey |-> groupKey]

\* The keys of the frontmatter fm whose value is an object and no array.
GroupKeys(fm) == SelectSeq(fm, LAMBDA kv : kv.value.t = "group")

RECURSIVE expandNestedEntries(_)
\* expandNestedEntries, for the paths of the entries: none for an entry
\* without path or file, one per group key of the file's frontmatter, and one
\* regular entry when it has no group key.
expandNestedEntries(ents) ==
  IF ents = << >> THEN << >>
  ELSE LET path == Head(ents)
           groupKeys == GroupKeys(vault[path])
           rest == expandNestedEntries(Tail(ents))
       IN IF ~IsFile(path) THEN rest
          ELSE IF groupKeys = << >> THEN <<VirtualEntry(path, NullV)>> \o rest
          ELSE [i \in 1..Len(groupKeys) |-> VirtualEntry(path, StrV(groupKeys[i].key))] \o rest

\* entry.getValue(propertyId) of the host: the note's property for a note.*
\* id, the file's path for a file.* id, null for any other id.
GetValue(path, propertyId) ==
  IF StartsWith(propertyId, NotePrefix)
  THEN IF IsFile(path)
       THEN Get(vault[path], Slice(propertyId, Len(NotePrefix) + 1, Len(propertyId)))
       ELSE NullV
  ELSE IF StartsWith(propertyId, FilePrefix) THEN StrV(path)
  ELSE NullV

\* getValueForDetection
getValueForDetection(vEntry, propertyId) ==
  IF Truthy(vEntry.groupKey)
  THEN IF ~IsFile(vEntry.path) THEN UndefV
       ELSE LET groupObj == Get(vault[vEntry.path], vEntry.groupKey.s)
                propKey == toPropKey(propertyId)
            IN IF ~Truthy(groupObj) \/ ~Truthy(propKey) THEN UndefV
               ELSE IF groupObj.t = "group" THEN Get(groupObj.s, propKey.s)
               ELSE UndefV
  ELSE GetValue(vEntry.path, propertyId)

\* getValueFor: '' for null and undefined, the join of an array, and the
\* String of any other value.
getValueFor(vEntry, propertyId) ==
  LET value == getValueForDetection(vEntry, propertyId)
  IN IF value.t \in {"null", "undef"} THEN << >> ELSE String(value)

RECURSIVE detectPropertyTypes(_, _)
\* detectPropertyTypes, for one property: the type of the first value that is
\* not null, and whether it is an array.
detectPropertyTypes(virtualEntries, pid) ==
  IF virtualEntries = << >> THEN [type |-> detectType(UndefV), isArray |-> FALSE]
  ELSE LET v == getValueForDetection(Head(virtualEntries), pid)
       IN IF v.t = "list"
          THEN [type |-> detectType(StrV(IF v.s = << >> THEN << >> ELSE v.s[1])),
                isArray |-> TRUE]
          ELSE IF v.t \notin {"null", "undef"} THEN [type |-> detectType(v), isArray |-> FALSE]
          ELSE detectPropertyTypes(Tail(virtualEntries), pid)

\* A cell of the table: kind is "span" for a read-only cell, "widget" for a
\* cell the host's renderProperty fills, "input" for an input of the view.
Cell(propertyId, vEntry, kind, type, isArray, value, checked) ==
  [prop |-> propertyId, path |-> vEntry.path, groupKey |-> vEntry.groupKey, kind |-> kind,
   type |-> type, isArray |-> isArray, value |-> value, checked |-> checked]

\* createEditableCell: the host's widget for a regular entry when the config
\* has renderProperty, and an input of the detected type otherwise.
createEditableCell(vEntry, propertyId, value, metadata) ==
  IF view.renderProperty /\ ~Truthy(vEntry.groupKey)
  THEN Cell(propertyId, vEntry, "widget", "text", FALSE, << >>, FALSE)
  ELSE IF metadata.type = "checkbox"
       THEN Cell(propertyId, vEntry, "input", "checkbox", metadata.isArray, <<"o", "n">>,
                 ToLowerCase(value) \in {<<"t", "r", "u", "e">>, <<"1">>, <<"y", "e", "s">>,
                                         <<"o", "n">>})
       ELSE IF metadata.type = "date"
            THEN Cell(propertyId, vEntry, "input", "date", metadata.isArray,
                      Slice(value, 1, Min(10, Len(value))), FALSE)
            ELSE Cell(propertyId, vEntry, "input", metadata.type, metadata.isArray, value,
                      FALSE)

\* The cell of onDataUpdated for a property and a virtual entry.
TableCell(propertyId, vEntry, virtualEntries) ==
  IF isComputedProperty(propertyId)
  THEN Cell(propertyId, vEntry, "span", "text", FALSE, getValueFor(vEntry, propertyId), FALSE)
  ELSE createEditableCell(vEntry, propertyId, getValueFor(vEntry, propertyId),
                          detectPropertyTypes(virtualEntries, propertyId))

\* The cells of onDataUpdated, row by row: none without entries, virtual
\* entries or properties.
TableCells ==
  LET virtualEntries == expandNestedEntries(view.entries)
      n == Len(virtualEntries)
  IN IF n = 0 \/ view.properties = << >> THEN << >>
     ELSE [k \in 1..(Len(view.properties) * n) |->
             TableCell(view.properties[((k - 1) \div n) + 1], virtualEntries[((k - 1) % n) + 1],
                       virtualEntries)]

\* The value commit stores, by the type of the input.
Committed(cell) ==
  IF cell.type = "checkbox" THEN BoolV(cell.checked)
  ELSE IF cell.type = "number"
       THEN IF IsFinite(ParseFloat(cell.value)) THEN NumV(ParseFloat(cell.value))
            ELSE StrV(cell.value)
       ELSE IF cell.type = "date" THEN StrV(cell.value)
            ELSE IF cell.isArray THEN ListV(SplitTrim(cell.value)) ELSE StrV(cell.value)

\* Written without the group: the value goes under the key in the frontmatter
\* itself.
WrittenTopLevel(fm, groupKey, propKey, v) == Set(fm, propKey, v)

\* The frontmatter after the callback commit gives to processFrontMatter: the
\* value goes under the key in the group object, made when fm[groupKey] is
\* falsy or no object (it is never an array here), and in the frontmatter
\* itself without group key.
Written(fm, groupKey, propKey, v) ==
  IF Truthy(groupKey)
  THEN LET old == Get(fm, groupKey.s)
           fields == IF old.t = "group" THEN old.s ELSE << >>
       IN Set(fm, groupKey.s, GroupV(Set(fields, propKey, v)))
  ELSE Set(fm, propKey, v)

\* ------------------------------------------------------ the view of part_000

\* The cells of onDataUpdated of part_000: the properties that are not
\* computed, each with a text input for every entry, with or without file.
TableCellsPart000 ==
  LET properties == SelectSeq(view.properties, LAMBDA pid : ~isComputed(pid))
      n == Len(view.entries)
  IN IF n = 0 \/ properties = << >> THEN << >>
     ELSE [k \in 1..(Len(properties) * n) |->
             LET vEntry == VirtualEntry(view.entries[((k - 1) % n) + 1], NullV)
                 pid == properties[((k - 1) \div n) + 1]
             IN Cell(pid, vEntry, "input", "text", FALSE, getValueFor(vEntry, pid), FALSE)]

\* ------------------------------------------------------------------ actions

\* The inputs of the view, by their place among the cells.
Inputs == {i \in 1..Len(view.cells) : view.cells[i].kind = "input"}

\* The bound of the calls of processFrontMatter in a run.
MaxWrites == 2

\* What the user types into an input of a type.
TypedTexts(type) ==
  IF type = "number" THEN {<< >>, <<"7">>}
  ELSE IF type = "date" THEN {<<"2", "0", "2", "5", "-", "0", "1", "-", "0", "1">>}
  ELSE {<<"a", ",", " ", ",", "b", " ">>}

\* onDataUpdated of main.ts: the table is rebuilt from the vault.
OnDataUpdated ==
  /\ pc = "input"
  /\ view.impl = "main"
  /\ view' = [view EXCEPT !.cells = TableCells]
  /\ UNCHANGED <<vault, writes, pan>>
  /\ UNCHANGED mapVars

\* onDataUpdated of part_000.
OnDataUpdatedPart000 ==
  /\ pc = "input"
  /\ view.impl = "part_000"
  /\ view' = [view EXCEPT !.cells = TableCellsPart000]
  /\ UNCHANGED <<vault, writes, pan>>
  /\ UNCHANGED mapVars

\* The user changes an input: types a text, or toggles a checkbox.
Edit ==
  /\ pc = "input"
  /\ \E i \in Inputs :
       IF view.cells[i].type = "checkbox"
       THEN view' = [view EXCEPT !.cells[i].checked = ~@]
       ELSE \E text \in TypedTexts(view.cells[i].type) :
              view' = [view EXCEPT !.cells[i].value = text]
  /\ UNCHANGED <<vault, writes, pan>>
  /\ UNCHANGED mapVars

\* commit of main.ts on the input at i, for a change or a blur event; written
\* is whether processFrontMatter runs the callback and writes the note (it
\* throws otherwise, and commit catches what it throws).
Commit(i, written) ==
  /\ pc = "input"
  /\ view.impl = "main"
  /\ i \in Inputs
  /\ Len(writes) < MaxWrites
  /\ LET cell == view.cells[i]
         propKey == toPropKey(cell.prop)
     IN IF Truthy(propKey) /\ IsFile(cell.path) /\ written
        THEN /\ vault' = [vault EXCEPT ![cell.path] =
                            Written(@, cell.groupKey, propKey.s, Committed(cell))]
             /\ writes' = Append(writes, [path |-> cell.path, prop |-> cell.prop,
                                          key |-> propKey.s, groupKey |-> cell.groupKey])
        ELSE UNCHANGED <<vault, writes>>
  /\ UNCHANGED <<view, pan>>
  /\ UNCHANGED mapVars

\* commit of part_000 on the input at i.
CommitPart000(i, written) ==
  /\ pc = "input"
  /\ view.impl = "part_000"
  /\ i \in Inputs
  /\ Len(writes) < MaxWrites
  /\ LET cell == view.cells[i]
         propKey == toPropKeyPart000(cell.prop)
     IN IF Truthy(propKey) /\ IsFile(cell.path) /\ written
        THEN /\ vault' = [vault EXCEPT ![cell.path] = Set(@, propKey.s, StrV(cell.value))]
             /\ writes' = Append(writes, [path |-> cell.path, prop |-> cell.prop,
                                          key |-> propKey.s, groupKey |-> NullV])
        ELSE UNCHANGED <<vault, writes>>
  /\ UNCHANGED <<view, pan>>
  /\ UNCHANGED mapVars

\* The list obj without its element at i.
Removed(obj, i) == SubSeq(obj, 1, i - 1) \o SubSeq(obj, i + 1, Len(obj))

\* The vault changes under the view, between a rebuild of the table and an
\* event on it: a note is deleted, or a nested object of its frontmatter is
\* removed or replaced by a string.
VaultChange ==
  /\ pc = "input"
  /\ \E f \in DOMAIN vault :
       \/ vault' = [x \in DOMAIN vault \ {f} |-> vault[x]]
       \/ \E i \in 1..Len(vault[f]) :
            /\ vault[f][i].value.t = "group"
            /\ \/ vault' = [vault EXCEPT ![f] = Removed(@, i)]
               \/ vault' = [vault EXCEPT ![f][i].value = StrV(<<"x">>)]
  /\ UNCHANGED <<view, writes, pan>>
  /\ UNCHANGED mapVars

\* ------------------------------------------------------------------- inputs

\* A key with its value.
KV(k, v) == [key |-> k, value |-> v]

Title == <<"t", "i", "t", "l", "e">>

\* The frontmatter of the note A: none, strings and a number, a nested object
\* named g beside a title, an array, a date and a boolean.
FrontmattersA ==
  {<< >>,
   <<KV(Title, StrV(<<"x">>)), KV(<<"n">>, NumV(5 * Scale))>>,
   <<KV(<<"g">>, GroupV(<<KV(Title, StrV(<<"y">>))>>)), KV(Title, StrV(<<"x">>))>>,
   <<KV(Title, ListV(<<<<"a">>, <<"b">>>>))>>,
   <<KV(Title, StrV(<<"2", "0", "2", "4", "-", "0", "1", "-", "0", "2">>)),
     KV(<<"n">>, BoolV(TRUE))>>}

\* The vaults: the notes A and B.
Vaults ==
  {[f \in {FileA, FileB} |-> IF f = FileA THEN fmA ELSE <<KV(Title, StrV(<<"z">>))>>] :
     fmA \in FrontmattersA}

\* The property ids of the base's view.
NoteTitle == NotePrefix \o Title

PropertyLists ==
  {<<NoteTitle>>,
   <<FilePrefix \o <<"n", "a", "m", "e">>, NoteTitle>>,
   <<FormulaPrefix \o <<"t", "o", "t", "a", "l">>, NotePrefix \o <<"n">>>>,
   <<NotePrefix \o <<"g">>>>,
   <<<<"x", ":", "y", ":">> \o Title>>}

\* The entries of the base, by the path of their file: A and B, A and an entry
\* whose file the vault does not hold.
EntryLists == {<<FileA, FileB>>, <<FileA, NoFile>>}

\* The Input view on a base: the view of main.ts, with or without the host's
\* renderProperty, or the view of part_000.
InitInput ==
  /\ pc = "input"
  /\ host = IdleHost
  /\ entries = << >>
  /\ opt = ViewOptions(Some(0))
  /\ IdleMap
  /\ vault \in Vaults
  /\ \E impl \in {"main", "part_000"}, rp \in BOOLEAN, es \in EntryLists, ps \in PropertyLists :
       /\ impl = "part_000" => ~rp
       /\ view = [impl |-> impl, renderProperty |-> rp, entries |-> es, properties |-> ps,
                  cells |-> << >>]
  /\ writes = << >>
  /\ pan = IdlePan

NextInput ==
  \/ OnDataUpdated
  \/ OnDataUpdatedPart000
  \/ Edit
  \/ \E i \in Inputs, written \in BOOLEAN : Commit(i, written)
  \/ \E i \in Inputs, written \in BOOLEAN : CommitPart000(i, written)
  \/ VaultChange

SpecInput == InitInput /\ [][NextInput]_vars

\* ------------------------------------------------------------------- C24

\* C24: a computed property, one whose id starts with "file." or "formula.",
\* is never editable in the Input view: no cell of it is an input element,
\* and no change or blur event has made processFrontMatter write a key for it.
C24_ComputedNeverEditable ==
  pc = "input" =>
    /\ \A i \in 1..Len(view.cells) :
         isComputedProperty(view.cells[i].prop) => view.cells[i].kind # "input"
    /\ \A k \in 1..Len(writes) : ~isComputedProperty(writes[k].prop)

\* ------------------------------------------------------------------- C25

\* The value under the frontmatter key of the cell's property in the
\* frontmatter fm: inside the group object for a nested-group entry.
Held(fm, cell) ==
  LET key == toPropKey(cell.prop).s
  IN IF Truthy(cell.groupKey)
     THEN IF Get(fm, cell.groupKey.s).t = "group" THEN Get(Get(fm, cell.groupKey.s).s, key)
          ELSE UndefV
     ELSE Get(fm, key)

\* A change or a blur on the input at i of the view of main.ts, for a property
\* with a frontmatter key and a file of the vault, whose write succeeds: the
\* step that logs the call of processFrontMatter for the cell.
WriteBack(i) ==
  /\ view.impl = "main"
  /\ Truthy(toPropKey(view.cells[i].prop))
  /\ IsFile(view.cells[i].path)
  /\ writes' = Append(writes, [path |-> view.cells[i].path, prop |-> view.cells[i].prop,
                               key |-> toPropKey(view.cells[i].prop).s,
                               groupKey |-> view.cells[i].groupKey])

\* Every note but the cell's keeps its frontmatter, and no note comes or goes.
OtherFilesKept(cell) ==
  /\ DOMAIN vault' = DOMAIN vault
  /\ \A f \in DOMAIN vault \ {cell.path} : vault'[f] = vault[f]

\* The values a and b are the same value: of one type, and equal.
Same(a, b) == a.t = b.t /\ a = b

\* The keys of the frontmatter fm.
Keys(fm) == {fm[k].key : k \in 1..Len(fm)}

\* C25 as the spec states it: after a change or blur on an editable cell of
\* property P of a file of the vault, the file's frontmatter holds the input's
\* value under P's key (inside the group for a nested-group entry), no other
\* file changes, and for a nested-group entry the top-level key of the same
\* name is unchanged.
C25_HoldsInputValue ==
  [][\A i \in Inputs :
       WriteBack(i) =>
         LET cell == view.cells[i]
         IN /\ Same(Held(vault'[cell.path], cell), StrV(cell.value))
            /\ OtherFilesKept(cell)
            /\ Truthy(cell.groupKey) =>
                 Same(Get(vault'[cell.path], toPropKey(cell.prop).s),
                      Get(vault[cell.path], toPropKey(cell.prop).s))]_vars

\* C25, amended: the frontmatter holds under P's key (inside the group object,
\* made when absent, for a nested-group entry) the input's state converted by
\* the detected type of P: the checked state of a checkbox, the number of a
\* number input (its text when that is no finite number), the text of a date
\* input, the list of the trimmed non-empty comma-separated parts for an
\* array property, and the text otherwise; no other file changes, and for a
\* nested-group entry every top-level key but the group's is unchanged.
C25_HoldsConvertedValue ==
  [][\A i \in Inputs :
       WriteBack(i) =>
         LET cell == view.cells[i]
             held == Held(vault'[cell.path], cell)
         IN /\ CASE cell.type = "checkbox" -> Same(held, BoolV(cell.checked))
                 [] cell.type = "number" ->
                      IF cell.value = << >> THEN Same(held, StrV(<< >>))
                      ELSE Same(held, NumV(StringToNumber(cell.value)))
                 [] cell.type = "date" -> Same(held, StrV(cell.value))
                 [] OTHER ->
                      IF cell.isArray
                      THEN /\ held.t = "list"
                           /\ held.s = SplitTrim(cell.value)
                      ELSE Same(held, StrV(cell.value))
            /\ OtherFilesKept(cell)
            /\ Truthy(cell.groupKey) =>
                 /\ Get(vault'[cell.path], cell.groupKey.s).t = "group"
                 /\ \A k \in (Keys(vault[cell.path]) \cup Keys(vault'[cell.path]))
                              \ {cell.groupKey.s} :
                      Same(Get(vault'[cell.path], k), Get(vault[cell.path], k))]_vars

\* C25's case: the view of main.ts has written a typed text into the group
\* object of a nested-group entry's note.
C25_Witness ==
  /\ pc = "input"
  /\ view.impl = "main"
  /\ \E k \in 1..Len(writes) :
       /\ Truthy(writes[k].groupKey)
       /\ IsFile(writes[k].path)
       /\ Get(vault[writes[k].path], writes[k].groupKey.s).t = "group"
       /\ Same(Get(Get(vault[writes[k].path], writes[k].groupKey.s).s, writes[k].key),
               StrV(<<"a", ",", " ", ",", "b", " ">>))

\* ------------------------------------------------------------------- C26

\* The inner loop is at an edge with both endpoints among the nodes.
AtResolvedEdge == AtEdge /\ EdgeFrom # 0 /\ EdgeTo # 0

\* The unclamped move of the edge the loop is at: <<a.x, a.y, b.x, b.y>>.
MovedHere == Moved(nodes, EdgeFrom, EdgeTo, TargetLength(edges[ei], opt), opt)

\* 0.5 * stiffness * damping * |d - L| for the edge the loop is at.
HalfCorrection ==
  Mul(Mul(Mul(Scale \div 2, Stiffness), Damping),
      LengthError(nodes, EdgeFrom, EdgeTo, edges[ei]))

\* The move displaces a by <<ax, ay>> and b by the opposite vector, the
\* vector has the length 0.5 * stiffness * damping * |d - L| and lies along
\* the line from a to b (both up to the grid's rounding: 5 units of the grid,
\* and for the length one unit in a distance d above 0 besides), and the
\* midpoint of a and b stays.
SymmetricMove ==
  LET a == nodes[EdgeFrom]
      b == nodes[EdgeTo]
      m == MovedHere
      ax == m[1] - a.x
      ay == m[2] - a.y
      bx == m[3] - b.x
      by == m[4] - b.y
  IN /\ bx = -ax /\ by = -ay
     /\ m[1] + m[3] = a.x + b.x /\ m[2] + m[4] = a.y + b.y
     /\ IF Dist(nodes, EdgeFrom, EdgeTo) = 0
        THEN Abs(Sqrt(ax * ax + ay * ay) - HalfCorrection) <= 5
        ELSE Abs(Sqrt(ax * ax + ay * ay) - HalfCorrection) * Dist(nodes, EdgeFrom, EdgeTo)
               <= HalfCorrection + 5 * Dist(nodes, EdgeFrom, EdgeTo)
     /\ Abs(ax * (b.y - a.y) - ay * (b.x - a.x)) <= 5 * Dist(nodes, EdgeFrom, EdgeTo)

\* C26 as the spec states it: in an edge update with both endpoints resolved
\* the unclamped move displaces the endpoints by equal and opposite vectors
\* of magnitude 0.5 * stiffness * damping * |d - L| along their line, and
\* keeps their midpoint.
C26_SymmetricMoveResolved ==
  [][(AtResolvedEdge /\ EdgeFrom # EdgeTo) => SymmetricMove]_vars

\* C26, amended: the same for an edge whose endpoints are at distinct
\* positions; when the move leaves the unit square nowhere, the update's step
\* displaces the two nodes by these vectors.
C26_SymmetricMoveDistinct ==
  [][(AtResolvedEdge /\ Dist(nodes, EdgeFrom, EdgeTo) > 0) =>
       /\ SymmetricMove
       /\ (\A c \in 1..4 : InUnit(MovedHere[c])) =>
            /\ nodes'[EdgeFrom].x - nodes[EdgeFrom].x = -(nodes'[EdgeTo].x - nodes[EdgeTo].x)
            /\ nodes'[EdgeFrom].y - nodes[EdgeFrom].y = -(nodes'[EdgeTo].y - nodes[EdgeTo].y)
            /\ nodes'[EdgeFrom].x = MovedHere[1] /\ nodes'[EdgeFrom].y = MovedHere[2]]_vars

\* C26's case: the loop is at an edge between nodes at distinct positions whose
\* distance is a tenth or more from the target length, and the move stays in
\* the unit square.
C26_Witness ==
  /\ AtResolvedEdge
  /\ Dist(nodes, EdgeFrom, EdgeTo) > 0
  /\ LengthError(nodes, EdgeFrom, EdgeTo, edges[ei]) >= Scale \div 10
  /\ Stiffness > 0 /\ Damping > 0
  /\ \A c \in 1..4 : InUnit(MovedHere[c])
  /\ MovedHere[1] # nodes[EdgeFrom].x

\* ------------------------------------------------------------------- C27

\* Every node is in the unit square.
AllInUnit(ns) == \A i \in 1..Len(ns) : InUnit(ns[i].x) /\ InUnit(ns[i].y)

\* C27: the solver starting from positions in [0,1], every edge update reads
\* positions in [0,1], those the updates before it in the round have clamped,
\* and leaves both endpoints of its edge with x and y in [0,1].
C27_PerEdgeClamp ==
  [][AtEdge =>
       /\ AllInUnit(nodes)
       /\ AtResolvedEdge =>
            /\ InUnit(nodes'[EdgeFrom].x) /\ InUnit(nodes'[EdgeFrom].y)
            /\ InUnit(nodes'[EdgeTo].x) /\ InUnit(nodes'[EdgeTo].y)]_vars

\* C27's case: in the first round the update of the first edge has clamped an
\* endpoint onto the border of the square, and the loop is at the second
\* edge, which ends at that node.
C27_Witness ==
  /\ AtResolvedEdge
  /\ iter = 0
  /\ ei = 2
  /\ \E i \in {EdgeFrom, EdgeTo} :
       /\ i \in {FindNode(nodes, edges[1].fromId), FindNode(nodes, edges[1].toId)}
       /\ nodes[i].x \in {0, Scale} \/ nodes[i].y \in {0, Scale}
       /\ nodes[i] # InitPlace(call.nodes)[i]

\* ------------------------------------------------------------------- C28

\* The endpoints of the edge the loop is at are one node (a self-loop) or two
\* nodes at one position.
CoincidentEdge ==
  /\ AtResolvedEdge
  /\ nodes[EdgeFrom].x = nodes[EdgeTo].x
  /\ nodes[EdgeFrom].y = nodes[EdgeTo].y

\* The nodes at i and j of the solver's call are two nodes placed at one
\* point, and every edge with both endpoints among the nodes that ends at
\* one of them has both its ends among them.
OnlyEachOther(i, j) ==
  /\ i # j
  /\ Placed(call.nodes[i]) /\ Placed(call.nodes[j])
  /\ call.nodes[i].x = call.nodes[j].x /\ call.nodes[i].y = call.nodes[j].y
  /\ \A k \in 1..Len(edges) :
       LET a == FindNode(nodes, edges[k].fromId)
           b == FindNode(nodes, edges[k].toId)
       IN (a # 0 /\ b # 0 /\ {a, b} \cap {i, j} # {}) => {a, b} \subseteq {i, j}

\* C28: the update of an edge whose endpoints are at one position, or are one
\* node, moves no node, whatever the target length; and two nodes that start
\* at one point and are connected to each other only are at that point
\* throughout the rounds and when the solver returns.
C28_CoincidentStay ==
  /\ [][CoincidentEdge => nodes' = nodes]_vars
  /\ [](pc \in {"iterate", "project"} =>
          \A i, j \in 1..Len(nodes) :
            OnlyEachOther(i, j) => (nodes[i] = call.nodes[i] /\ nodes[j] = call.nodes[j]))

\* C28's case: the solver has returned after a round or more of updates with
\* a stiffness above 0, of an edge with a target length above 0 between two
\* nodes that started at one point and of a self-loop.
C28_Witness ==
  /\ pc = "project"
  /\ iter > 0
  /\ Stiffness > 0 /\ Damping > 0
  /\ OnlyEachOther(1, 2)
  /\ \E k \in 1..Len(edges) :
       /\ {FindNode(nodes, edges[k].fromId), FindNode(nodes, edges[k].toId)} = {1, 2}
       /\ TargetLength(edges[k], opt) > 0
  /\ \E k \in 1..Len(edges) :
       FindNode(nodes, edges[k].fromId) = 2 /\ FindNode(nodes, edges[k].toId) = 2

\* ------------------------------------------------------------------- C29

\* The builder has run and has given the solver the edges call.edges.
SolverCalled == pc \in {"layout", "iterate", "project", "draw", "done"} /\ call.nodes # << >>

MaxEvents == 5

\* The places of a pointer over the map, in pixels.
PanPoints == {<<0, 0>>, <<3, 0>>, <<1, 2>>}

\* onPointerMove for an event at (x, y): the transform follows the drag.
onPointerMove(pn, x, y) ==
  IF ~pn.isPanning THEN pn
  ELSE [pn EXCEPT !.shown = TRUE,
                  !.tx = pn.panX + (x - pn.startX),
                  !.ty = pn.panY + (y - pn.startY)]

\* onPointerUp for an event at (x, y), the listener of pointerup and of
\* pointerleave: the offset takes the drag's delta, and the drag ends.
onPointerUp(pn, x, y) ==
  IF ~pn.isPanning THEN pn
  ELSE [pn EXCEPT !.panX = pn.panX + (x - pn.startX),
                  !.panY = pn.panY + (y - pn.startY),
                  !.isPanning = FALSE]

\* onPointerDown for an event at (x, y): a drag starts there.
onPointerDown(pn, x, y) == [pn EXCEPT !.isPanning = TRUE, !.startX = x, !.startY = y]

\* The record pn with one more event counted.
Counted(pn) == [pn EXCEPT !.events = @ + 1]

\* The pointer p, not pressed, is pressed on the map where it is.
PointerDown(p) ==
  /\ pc = "pan"
  /\ pan.events < MaxEvents
  /\ ~pan.pointers[p].down
  /\ pan' = Counted([onPointerDown(pan, pan.pointers[p].x, pan.pointers[p].y)
                       EXCEPT !.pointers[p].down = TRUE,
                              !.pointers[p].fromX = pan.pointers[p].x,
                              !.pointers[p].fromY = pan.pointers[p].y])
  /\ UNCHANGED <<vault, view, writes>>
  /\ UNCHANGED mapVars

\* The pointer p moves over the map to the place pt.
PointerMove(p, pt) ==
  /\ pc = "pan"
  /\ pan.events < MaxEvents
  /\ <<pan.pointers[p].x, pan.pointers[p].y>> # pt
  /\ pan' = Counted([onPointerMove(pan, pt[1], pt[2])
                       EXCEPT !.pointers[p].x = pt[1], !.pointers[p].y = pt[2]])
  /\ UNCHANGED <<vault, view, writes>>
  /\ UNCHANGED mapVars

\* The pointer p, pressed, is released where it is: its drag ends, with the
\* delta from where it was pressed.
PointerUp(p) ==
  /\ pc = "pan"
  /\ pan.events < MaxEvents
  /\ pan.pointers[p].down
  /\ pan' = Counted([onPointerUp(pan, pan.pointers[p].x, pan.pointers[p].y)
                       EXCEPT !.pointers[p].down = FALSE,
                              !.sumX = @ + (pan.pointers[p].x - pan.pointers[p].fromX),
                              !.sumY = @ + (pan.pointers[p].y - pan.pointers[p].fromY)])
  /\ UNCHANGED <<vault, view, writes>>
  /\ UNCHANGED mapVars

\* The pointer p, not pressed, leaves the map from where it is.
PointerLeave(p) ==
  /\ pc = "pan"
  /\ pan.events < MaxEvents
  /\ ~pan.pointers[p].down
  /\ pan' = Counted(onPointerUp(pan, pan.pointers[p].x, pan.pointers[p].y))
  /\ UNCHANGED <<vault, view, writes>>
  /\ UNCHANGED mapVars

\* The map as createSvg leaves it, with the pointers at the origin.
InitPan ==
  /\ pc = "pan"
  /\ host = IdleHost
  /\ entries = << >>
  /\ opt = ViewOptions(Some(0))
  /\ IdleMap
  /\ IdleUI

NextPan ==
  \/ \E p \in Pointers : PointerDown(p)
  \/ \E p \in Pointers, pt \in PanPoints : PointerMove(p, pt)
  \/ \E p \in Pointers : PointerUp(p)
  \/ \E p \in Pointers : PointerLeave(p)

SpecPan == InitPan /\ [][NextPan]_vars

\* ------------------------------------------------------------------- C30

\* The translate the content group shows: (0, 0) without a transform.
ShownTranslate == IF pan.shown THEN <<pan.tx, pan.ty>> ELSE <<0, 0>>

\* C30: whenever no drag is in progress, the translate shown on the content
\* group is the offset (panX, panY), which is the sum of the deltas of all
\* drags; and a pointermove, pointerup or pointerleave while no drag is in
\* progress changes neither the offset nor the transform.
C30_DragPanConsistency ==
  /\ []((pc = "pan" /\ ~pan.isPanning) =>
          /\ ShownTranslate = <<pan.panX, pan.panY>>
          /\ <<pan.panX, pan.panY>> = <<pan.sumX, pan.sumY>>)
  /\ [][(pc = "pan" /\ ~pan.isPanning /\ ~pan'.isPanning) =>
          /\ <<pan'.panX, pan'.panY>> = <<pan.panX, pan.panY>>
          /\ <<pan'.shown, pan'.tx, pan'.ty>> = <<pan.shown, pan.tx, pan.ty>>]_vars

====
